---------------------------- MODULE Spec2Model ----------------------------
(***************************************************************************)
(* A model of the SPDX SBOM parser core of sbom_parser_gui.py: the         *)
(* supplier normalizer, the external-reference aggregator, the three       *)
(* extractors (JSON, tag-value, XML), the dispatcher and the CSV writer.   *)
(*                                                                         *)
(* Text is a sequence of characters, each character a one-character        *)
(* string, so that startswith, strip, split, upper, replace and join are   *)
(* modelled by what they do.  Python's None is the one-element sequence    *)
(* <<"None">>, whose element is no character, so it differs from every     *)
(* text.                                                                   *)
(***************************************************************************)
EXTENDS Integers, Sequences, FiniteSets, TLC

VARIABLES
    call,              \* the entry point being run
    pc,                \* its position: "start", inside a loop, "returned", "raised"
    raw,               \* clean_supplier: its argument
    external_refs,     \* extract_package_manager_locator: its argument
    input_file,        \* parse_sbom: the path
    content,           \* the content of the file at input_file
    src,               \* the package the file was written from, or NoneDict
    ext,               \* parse_sbom: the lower-cased extension
    extractor,         \* the extractor parse_sbom routed to ("" if none)
    pos,               \* extractors: the loop index (lines or packages done)
    components,        \* extractors: the output list
    current_package,   \* parse_spdx_tv: the open record, or NoneDict
    current_ext_refs,  \* parse_spdx_tv: the refs accumulator
    result,            \* what the call returned
    error,             \* the exception the call raised (NoError if none)
    output_file,       \* save_to_csv: the text written to output_file, or None
    frames,            \* concurrent parse_sbom calls: the locals of each call
    _input_path,       \* SBOMParserApp: the input path entry
    _output_path,      \* SBOMParserApp: the output path entry
    _filter_var,       \* SBOMParserApp: the text of the filter entry
    _filter_col,       \* SBOMParserApp: the column the filter looks at
    _sort_reverse,     \* SBOMParserApp: per column, whether the next sort is reversed
    _parse_btn,        \* the Parse button's _enabled
    _progress,         \* whether the progress bar is running
    _components,       \* SBOMParserApp: the loaded records
    _tree,             \* the table: its rows, each an iid, the values and the tags
    _stat_total,       \* the statistics cards
    _stat_purl,
    _stat_no_purl,
    _stat_licenses,
    _status,           \* the kind of the last status message
    workers,           \* the parse worker threads started, each with its position
    after_queue        \* Tk's queue of after(0, ...) callbacks, oldest first

\* The variables of the parsing functions called alone.
core_vars == <<call, pc, raw, external_refs, input_file, content, src, ext,
               extractor, pos, components, current_package, current_ext_refs,
               result, error, output_file>>

\* The variables of the application window and of its threads.
app_vars == <<_input_path, _output_path, _filter_var, _filter_col,
              _sort_reverse, _parse_btn, _progress, _components, _tree,
              _stat_total, _stat_purl, _stat_no_purl, _stat_licenses, _status,
              workers, after_queue>>

vars == <<core_vars, frames, app_vars>>

\* No window: the functions are called from a script.
NoWindow ==
    /\ _input_path = <<>> /\ _output_path = <<>>
    /\ _filter_var = <<>> /\ _filter_col = "All" /\ _sort_reverse = {}
    /\ _parse_btn = TRUE /\ _progress = FALSE
    /\ _components = <<>> /\ _tree = <<>>
    /\ _stat_total = 0 /\ _stat_purl = 0 /\ _stat_no_purl = 0
    /\ _stat_licenses = 0
    /\ _status = "" /\ workers = <<>> /\ after_queue = <<>>

\* No window and no concurrent calls: the functions are called alone.
NoApp == frames = <<>> /\ NoWindow

----------------------------------------------------------------------------
(* Bounds of the model.                                                    *)

MaxRefs == 2
MaxLines == 4

----------------------------------------------------------------------------
(* Literals of the source.                                                 *)

None == <<"None">>
\* None where the code holds either None or a dict
NoneDict == [None |-> TRUE]
NA == <<"N","/","A">>
pfx_Organization == <<"O","r","g","a","n","i","z","a","t","i","o","n",":">>
pfx_Person == <<"P","e","r","s","o","n",":">>
pfx_Tool == <<"T","o","o","l",":">>
PACKAGE_MANAGER == <<"P","A","C","K","A","G","E","-","M","A","N","A","G","E","R">>
JoinSep == <<";"," ">>
tag_PackageName == <<"P","a","c","k","a","g","e","N","a","m","e",":">>
tag_SPDXID == <<"S","P","D","X","I","D",":">>
tag_PackageVersion == <<"P","a","c","k","a","g","e","V","e","r","s","i","o","n",":">>
tag_PackageSupplier == <<"P","a","c","k","a","g","e","S","u","p","p","l","i","e","r",":">>
tag_PackageLicenseDeclared == <<"P","a","c","k","a","g","e","L","i","c","e","n","s","e","D","e","c","l","a","r","e","d",":">>
tag_PackageCopyrightText == <<"P","a","c","k","a","g","e","C","o","p","y","r","i","g","h","t","T","e","x","t",":">>
tag_PackageDownloadLocation == <<"P","a","c","k","a","g","e","D","o","w","n","l","o","a","d","L","o","c","a","t","i","o","n",":">>
tag_PackageHomePage == <<"P","a","c","k","a","g","e","H","o","m","e","P","a","g","e",":">>
tag_PackageDescription == <<"P","a","c","k","a","g","e","D","e","s","c","r","i","p","t","i","o","n",":">>
tag_ExternalRef == <<"E","x","t","e","r","n","a","l","R","e","f",":">>
ext_json == <<".","j","s","o","n">>
ext_spdx == <<".","s","p","d","x">>
ext_tv == <<".","t","v">>
ext_xml == <<".","x","m","l">>
UnsupportedFormat == <<"U","n","s","u","p","p","o","r","t","e","d"," ","f","o","r","m","a","t",":"," ">>

\* The record keys, in the order of the dict literals and of fieldnames.
fieldnames ==
    <<"SPDX_ID", "Name", "Version", "Supplier", "License_Declared",
      "Copyright_Text", "Download_Location", "Homepage", "Description",
      "Package_Manager_Locator">>

FieldSet == {fieldnames[k] : k \in 1..Len(fieldnames)}

----------------------------------------------------------------------------
(* Python's str methods, on sequences of characters.                       *)

LowerLetters == <<"a","b","c","d","e","f","g","h","i","j","k","l","m","n","o","p","q","r","s","t","u","v","w","x","y","z">>
UpperLetters == <<"A","B","C","D","E","F","G","H","I","J","K","L","M","N","O","P","Q","R","S","T","U","V","W","X","Y","Z">>

IsSpace(c) == c \in {" ", "\t", "\n", "\r"}

\* s.startswith(p)
startswith(s, p) == Len(s) >= Len(p) /\ SubSeq(s, 1, Len(p)) = p

RECURSIVE lstrip(_)
lstrip(s) == IF s # <<>> /\ IsSpace(Head(s)) THEN lstrip(Tail(s)) ELSE s

RECURSIVE rstrip(_)
rstrip(s) ==
    IF s # <<>> /\ IsSpace(s[Len(s)]) THEN rstrip(SubSeq(s, 1, Len(s) - 1)) ELSE s

\* s.strip()
strip(s) == rstrip(lstrip(s))

UpperChar(c) ==
    IF \E k \in 1..26 : LowerLetters[k] = c
    THEN UpperLetters[CHOOSE k \in 1..26 : LowerLetters[k] = c]
    ELSE c

LowerChar(c) ==
    IF \E k \in 1..26 : UpperLetters[k] = c
    THEN LowerLetters[CHOOSE k \in 1..26 : UpperLetters[k] = c]
    ELSE c

\* s.upper(), s.lower()
str_upper(s) == [k \in 1..Len(s) |-> UpperChar(s[k])]
str_lower(s) == [k \in 1..Len(s) |-> LowerChar(s[k])]

\* s.replace(a, b) for single characters a and b
str_replace(s, a, b) == [k \in 1..Len(s) |-> IF s[k] = a THEN b ELSE s[k]]

\* sep.join(parts)
RECURSIVE str_join(_, _)
str_join(sep, parts) ==
    IF parts = <<>> THEN <<>>
    ELSE IF Len(parts) = 1 THEN parts[1]
    ELSE parts[1] \o sep \o str_join(sep, Tail(parts))

\* s.split(c, 1)[1]: the text after the first c (s holds a c)
AfterFirst(s, c) ==
    LET k == CHOOSE j \in 1..Len(s) : s[j] = c /\ \A h \in 1..(j - 1) : s[h] # c
    IN  SubSeq(s, k + 1, Len(s))

\* s.split(): the maximal runs of non-whitespace characters, in order
RECURSIVE str_split(_)
str_split(s) ==
    LET t == lstrip(s) IN
    IF t = <<>> THEN <<>>
    ELSE LET n == IF \E j \in 1..Len(t) : IsSpace(t[j])
                  THEN (CHOOSE j \in 1..Len(t) :
                            IsSpace(t[j]) /\ \A h \in 1..(j - 1) : ~IsSpace(t[h])) - 1
                  ELSE Len(t)
         IN  <<SubSeq(t, 1, n)>> \o str_split(SubSeq(t, n + 1, Len(t)))

----------------------------------------------------------------------------
(* clean_supplier                                                          *)

\* `not raw`: None and the empty string are falsy
Falsy(v) == v = None \/ v = <<>>

\* clean_supplier without the strip() of lines 29 and 31.
clean_supplier_untrimmed(v) ==
    IF Falsy(v) \/ v = NA THEN v
    ELSE IF startswith(v, pfx_Organization)
         THEN SubSeq(v, Len(pfx_Organization) + 1, Len(v))
    ELSE IF startswith(v, pfx_Person)
         THEN SubSeq(v, Len(pfx_Person) + 1, Len(v))
    ELSE IF startswith(v, pfx_Tool)
         THEN SubSeq(v, Len(pfx_Tool) + 1, Len(v))
    ELSE v

clean_supplier(v) ==
    IF Falsy(v) \/ v = NA THEN v
    ELSE IF startswith(v, pfx_Organization)
         THEN strip(SubSeq(v, Len(pfx_Organization) + 1, Len(v)))
    ELSE IF startswith(v, pfx_Person)
         THEN strip(SubSeq(v, Len(pfx_Person) + 1, Len(v)))
    ELSE IF startswith(v, pfx_Tool)
         THEN strip(SubSeq(v, Len(pfx_Tool) + 1, Len(v)))
    ELSE strip(v)


----------------------------------------------------------------------------
(* extract_package_manager_locator                                         *)

\* An exception of class type with message msg; NoError while none is raised.
Exc(type, msg) == [type |-> type, msg |-> msg]
NoError == Exc("", <<>>)

\* d.get(key, default) of a dict d, a function on the keys it holds
get(d, key, default) == IF key \in DOMAIN d THEN d[key] ELSE default

\* category_of without the replace('_', '-') of line 38.
category_of_unreplaced(ref) ==
    str_upper(get(ref, "referenceCategory", <<>>))

\* ref.get('referenceCategory', '').upper().replace('_', '-')
category_of(ref) ==
    str_replace(str_upper(get(ref, "referenceCategory", <<>>)), "_", "-")

\* The loop of lines 37-41: locators after the refs from index k on.
RECURSIVE locators_from(_, _, _)
locators_from(refs, k, locators) ==
    IF k > Len(refs) THEN locators
    ELSE locators_from(refs, k + 1,
            IF category_of(refs[k]) = PACKAGE_MANAGER
            THEN Append(locators, get(refs[k], "referenceLocator", NA))
            ELSE locators)

\* The exception the call raises, "" if it returns: None has no upper()
\* (line 38), and join refuses a None item (line 42).
locator_raises(refs) ==
    IF \E k \in 1..Len(refs) : get(refs[k], "referenceCategory", <<>>) = None
    THEN "AttributeError"
    ELSE IF \E k \in 1..Len(locators_from(refs, 1, <<>>)) :
                locators_from(refs, 1, <<>>)[k] = None
    THEN "TypeError"
    ELSE ""

extract_package_manager_locator(refs) ==
    LET locators == locators_from(refs, 1, <<>>)
    IN  IF locators # <<>> THEN str_join(JoinSep, locators) ELSE NA

----------------------------------------------------------------------------
(* The helpers called on their own: SpecHelpers.                           *)

Pads == {<<>>, <<" ">>}

SupplierBodies == {<<>>, <<"A">>, NA, <<"A", " ", "b">>}

SupplierPrefixes == {<<>>, pfx_Organization, pfx_Person, pfx_Tool}

\* Supplier strings: padding, a prefix or none, padding, a body, padding,
\* and a string with two prefixes in a row.
RawSuppliers ==
    {p1 \o pre \o p2 \o body \o p3 :
        p1 \in Pads, pre \in SupplierPrefixes, p2 \in Pads,
        body \in SupplierBodies, p3 \in Pads}
    \cup {pfx_Person \o pfx_Tool \o <<"A">>, None}

RefCategories ==
    {PACKAGE_MANAGER,
     <<"P","A","C","K","A","G","E","_","M","A","N","A","G","E","R">>,
     <<"p","a","c","k","a","g","e","-","m","a","n","a","g","e","r">>,
     <<"P","a","c","k","a","g","e","_","M","a","n","a","g","e","r">>,
     <<"P","A","C","K","A","G","E"," ","M","A","N","A","G","E","R">>,
     <<"S","E","C","U","R","I","T","Y">>,
     <<>>}

RefLocators == {<<"p">>, <<"q">>, <<>>}

\* Reference entries: both sub-fields, one of them missing, or one null.
RefEntries ==
    {[referenceCategory |-> c, referenceLocator |-> l] :
        c \in RefCategories, l \in RefLocators}
    \cup {[referenceCategory |-> c] : c \in {PACKAGE_MANAGER, <<>>}}
    \cup {[referenceLocator |-> l] : l \in {<<"p">>}}
    \cup {[referenceCategory |-> None, referenceLocator |-> <<"p">>],
          [referenceCategory |-> PACKAGE_MANAGER, referenceLocator |-> None]}

RECURSIVE SeqsUpTo(_, _)
SeqsUpTo(S, n) ==
    IF n = 0 THEN {<<>>}
    ELSE LET shorter == SeqsUpTo(S, n - 1)
         IN  shorter \cup {Append(q, x) : q \in {t \in shorter : Len(t) = n - 1}, x \in S}

\* No file is parsed and nothing is written.
NoParse ==
    /\ input_file = <<>> /\ content = <<>> /\ src = NoneDict /\ ext = <<>>
    /\ extractor = "" /\ pos = 0 /\ components = <<>>
    /\ current_package = NoneDict /\ current_ext_refs = <<>>
    /\ output_file = None

InitHelpers ==
    /\ NoApp
    /\ pc = "start" /\ result = None /\ error = NoError
    /\ NoParse
    /\ \/ /\ call = "clean_supplier"
          /\ raw \in RawSuppliers
          /\ external_refs = <<>>
       \/ /\ call = "extract_package_manager_locator"
          /\ external_refs \in SeqsUpTo(RefEntries, MaxRefs)
          /\ raw = <<>>

CallCleanSupplier ==
    /\ call = "clean_supplier" /\ pc = "start"
    /\ result' = clean_supplier(raw)
    /\ pc' = "returned"
    /\ UNCHANGED <<call, raw, external_refs, input_file, content, src, ext,
                   extractor, pos, components, current_package,
                   current_ext_refs, error, output_file>>
    /\ UNCHANGED <<frames, app_vars>>

CallExtractLocator ==
    /\ call = "extract_package_manager_locator" /\ pc = "start"
    /\ IF locator_raises(external_refs) # ""
       THEN /\ error' = Exc(locator_raises(external_refs), <<>>)
            /\ pc' = "raised"
            /\ UNCHANGED result
       ELSE /\ result' = extract_package_manager_locator(external_refs)
            /\ pc' = "returned"
            /\ UNCHANGED error
    /\ UNCHANGED <<call, raw, external_refs, input_file, content, src, ext,
                   extractor, pos, components, current_package,
                   current_ext_refs, output_file>>
    /\ UNCHANGED <<frames, app_vars>>

NextHelpers == CallCleanSupplier \/ CallExtractLocator

SpecHelpers == InitHelpers /\ [][NextHelpers]_vars

----------------------------------------------------------------------------
(* parse_spdx_json                                                         *)

\* What json.load gives for the file: kind "undecodable" when it raises,
\* else the kind of the top-level value, with the dict of an object.
JsonValue(kind, value) == [kind |-> kind, value |-> value]

\* sbom_data.get('packages', [])
json_packages(sbom_data) == get(sbom_data.value, "packages", <<>>)

\* The dict literal of lines 51-64.
json_record(package) ==
    [SPDX_ID                 |-> get(package, "SPDXID", NA),
     Name                    |-> get(package, "name", NA),
     Version                 |-> get(package, "versionInfo", NA),
     Supplier                |-> clean_supplier(get(package, "supplier", NA)),
     License_Declared        |-> get(package, "licenseDeclared", NA),
     Copyright_Text          |-> get(package, "copyrightText", NA),
     Download_Location       |-> get(package, "downloadLocation", NA),
     Homepage                |-> get(package, "homepage", NA),
     Description             |-> get(package, "description", NA),
     Package_Manager_Locator |->
         extract_package_manager_locator(get(package, "externalRefs", <<>>))]

\* The exception building the record raises, "" if none: the aggregator's.
json_record_raises(package) ==
    locator_raises(get(package, "externalRefs", <<>>))

\* json_load_raises were the loop of line 50 to take a non-object for a
\* document without packages.
json_load_raises_lenient(sbom_data) ==
    IF sbom_data.kind = "undecodable" THEN "JSONDecodeError" ELSE ""

\* The exception lines 46-50 raise before the loop, "" if none: json.load
\* raises on undecodable text, and only a dict has get.
json_load_raises(sbom_data) ==
    IF sbom_data.kind = "undecodable" THEN "JSONDecodeError"
    ELSE IF sbom_data.kind # "object" THEN "AttributeError"
    ELSE ""

\* Lines 46-50, up to the loop.
JsonLoad ==
    /\ extractor = "parse_spdx_json" /\ pc = "open"
    /\ IF json_load_raises(content) # ""
       THEN /\ pc' = "raised"
            /\ error' = Exc(json_load_raises(content), <<>>)
       ELSE /\ pc' = "loop"
            /\ UNCHANGED error
    /\ pos' = 0
    /\ components' = <<>>
    /\ UNCHANGED <<call, raw, external_refs, input_file, content, src, ext,
                   extractor, current_package, current_ext_refs, result,
                   output_file>>
    /\ UNCHANGED <<frames, app_vars>>

\* One iteration of the loop of lines 50-64.
JsonPackage ==
    /\ extractor = "parse_spdx_json" /\ pc = "loop"
    /\ pos < Len(json_packages(content))
    /\ LET package == json_packages(content)[pos + 1] IN
       IF json_record_raises(package) # ""
       THEN /\ pc' = "raised"
            /\ error' = Exc(json_record_raises(package), <<>>)
            /\ UNCHANGED <<pos, components>>
       ELSE /\ components' = Append(components, json_record(package))
            /\ pos' = pos + 1
            /\ UNCHANGED <<pc, error>>
    /\ UNCHANGED <<call, raw, external_refs, input_file, content, src, ext,
                   extractor, current_package, current_ext_refs, result,
                   output_file>>
    /\ UNCHANGED <<frames, app_vars>>

\* Line 65.
JsonReturn ==
    /\ extractor = "parse_spdx_json" /\ pc = "loop"
    /\ pos = Len(json_packages(content))
    /\ result' = components
    /\ pc' = "returned"
    /\ UNCHANGED <<call, raw, external_refs, input_file, content, src, ext,
                   extractor, pos, components, current_package,
                   current_ext_refs, error, output_file>>
    /\ UNCHANGED <<frames, app_vars>>

----------------------------------------------------------------------------
(* parse_spdx_tv                                                           *)

\* tag_map, in the order of the dict literal of lines 101-110.
tag_map ==
    <<<<tag_SPDXID, "SPDX_ID">>,
      <<tag_PackageVersion, "Version">>,
      <<tag_PackageSupplier, "Supplier">>,
      <<tag_PackageLicenseDeclared, "License_Declared">>,
      <<tag_PackageCopyrightText, "Copyright_Text">>,
      <<tag_PackageDownloadLocation, "Download_Location">>,
      <<tag_PackageHomePage, "Homepage">>,
      <<tag_PackageDescription, "Description">>>>

\* tv_new_package were the open record renamed instead of replaced.
tv_new_package_reused(line) ==
    IF current_package = NoneDict
    THEN [f \in FieldSet |-> IF f = "Name" THEN strip(AfterFirst(line, ":")) ELSE NA]
    ELSE [current_package EXCEPT !.Name = strip(AfterFirst(line, ":"))]

\* The fresh record of lines 86-97.
tv_new_package(line) ==
    [SPDX_ID                 |-> NA,
     Name                    |-> strip(AfterFirst(line, ":")),
     Version                 |-> NA,
     Supplier                |-> NA,
     License_Declared        |-> NA,
     Copyright_Text          |-> NA,
     Download_Location       |-> NA,
     Homepage                |-> NA,
     Description             |-> NA,
     Package_Manager_Locator |-> NA]

\* Lines 83-85 and 129-131: the open record with its locator aggregated.
tv_finalized(package, refs) ==
    [package EXCEPT !.Package_Manager_Locator = extract_package_manager_locator(refs)]

\* tv_apply_tags without the strip() of line 113.
RECURSIVE tv_apply_tags_unstripped(_, _, _)
tv_apply_tags_unstripped(package, line, k) ==
    IF k > Len(tag_map) THEN package
    ELSE IF startswith(line, tag_map[k][1])
         THEN LET value == AfterFirst(line, ":")
              IN  [package EXCEPT ![tag_map[k][2]] =
                      IF tag_map[k][2] = "Supplier" THEN clean_supplier(value)
                      ELSE value]
    ELSE tv_apply_tags_unstripped(package, line, k + 1)

\* tv_apply_tags without the clean_supplier of lines 114-115.
RECURSIVE tv_apply_tags_uncleaned(_, _, _)
tv_apply_tags_uncleaned(package, line, k) ==
    IF k > Len(tag_map) THEN package
    ELSE IF startswith(line, tag_map[k][1])
         THEN [package EXCEPT ![tag_map[k][2]] = strip(AfterFirst(line, ":"))]
    ELSE tv_apply_tags_uncleaned(package, line, k + 1)

\* The loop of lines 111-117: the first tag of tag_map the line starts
\* with sets its key and breaks; the record is unchanged if there is none.
RECURSIVE tv_apply_tags(_, _, _)
tv_apply_tags(package, line, k) ==
    IF k > Len(tag_map) THEN package
    ELSE IF startswith(line, tag_map[k][1])
         THEN LET value == strip(AfterFirst(line, ":"))
              IN  [package EXCEPT ![tag_map[k][2]] =
                      IF tag_map[k][2] = "Supplier" THEN clean_supplier(value)
                      ELSE value]
    ELSE tv_apply_tags(package, line, k + 1)

\* tv_apply_ref were the locator the last token instead of parts[2].
tv_apply_ref_last_token(refs, line) ==
    IF startswith(line, tag_ExternalRef)
    THEN LET parts == str_split(strip(AfterFirst(line, ":")))
         IN  IF Len(parts) >= 3
             THEN Append(refs, [referenceCategory |-> parts[1],
                                referenceType     |-> parts[2],
                                referenceLocator  |-> parts[Len(parts)]])
             ELSE refs
    ELSE refs

\* Lines 119-126: the accumulator after the line.
tv_apply_ref(refs, line) ==
    IF startswith(line, tag_ExternalRef)
    THEN LET parts == str_split(strip(AfterFirst(line, ":")))
         IN  IF Len(parts) >= 3
             THEN Append(refs, [referenceCategory |-> parts[1],
                                referenceType     |-> parts[2],
                                referenceLocator  |-> parts[3]])
             ELSE refs
    ELSE refs

\* Lines 69-74.
TvOpen ==
    /\ extractor = "parse_spdx_tv" /\ pc = "open"
    /\ components' = <<>>
    /\ current_package' = NoneDict
    /\ current_ext_refs' = <<>>
    /\ pos' = 0
    /\ pc' = "loop"
    /\ UNCHANGED <<call, raw, external_refs, input_file, content, src, ext,
                   extractor, result, error, output_file>>
    /\ UNCHANGED <<frames, app_vars>>

\* TvLine were the block of lines 119-126 one level out, run for every
\* line that is not skipped and opens no package.
TvLine_refs_dedented ==
    /\ extractor = "parse_spdx_tv" /\ pc = "loop"
    /\ pos < Len(content)
    /\ pos' = pos + 1
    /\ LET line == strip(content[pos + 1]) IN
       IF line = <<>> \/ startswith(line, <<"#">>)
       THEN UNCHANGED <<components, current_package, current_ext_refs>>
       ELSE IF startswith(line, tag_PackageName)
       THEN /\ components' =
                  IF current_package # NoneDict
                  THEN Append(components,
                              tv_finalized(current_package, current_ext_refs))
                  ELSE components
            /\ current_package' = tv_new_package(line)
            /\ current_ext_refs' = <<>>
       ELSE /\ current_package' =
                  IF current_package # NoneDict
                  THEN tv_apply_tags(current_package, line, 1)
                  ELSE current_package
            /\ current_ext_refs' = tv_apply_ref(current_ext_refs, line)
            /\ UNCHANGED components
    /\ UNCHANGED <<call, pc, raw, external_refs, input_file, content, src,
                   ext, extractor, result, error, output_file>>
    /\ UNCHANGED <<frames, app_vars>>

\* One iteration of the loop of lines 76-126.
TvLine ==
    /\ extractor = "parse_spdx_tv" /\ pc = "loop"
    /\ pos < Len(content)
    /\ pos' = pos + 1
    /\ LET line == strip(content[pos + 1]) IN
       IF line = <<>> \/ startswith(line, <<"#">>)
       THEN UNCHANGED <<components, current_package, current_ext_refs>>
       ELSE IF startswith(line, tag_PackageName)
       THEN /\ components' =
                  IF current_package # NoneDict
                  THEN Append(components,
                              tv_finalized(current_package, current_ext_refs))
                  ELSE components
            /\ current_package' = tv_new_package(line)
            /\ current_ext_refs' = <<>>
       ELSE IF current_package # NoneDict
       THEN /\ current_package' = tv_apply_tags(current_package, line, 1)
            /\ current_ext_refs' = tv_apply_ref(current_ext_refs, line)
            /\ UNCHANGED components
       ELSE UNCHANGED <<components, current_package, current_ext_refs>>
    /\ UNCHANGED <<call, pc, raw, external_refs, input_file, content, src,
                   ext, extractor, result, error, output_file>>
    /\ UNCHANGED <<frames, app_vars>>

\* TvEnd without lines 128-131: the package open at the end is dropped.
TvEnd_unfinalized ==
    /\ extractor = "parse_spdx_tv" /\ pc = "loop"
    /\ pos = Len(content)
    /\ result' = components
    /\ pc' = "returned"
    /\ UNCHANGED <<call, raw, external_refs, input_file, content, src, ext,
                   extractor, pos, components, current_package,
                   current_ext_refs, error, output_file>>
    /\ UNCHANGED <<frames, app_vars>>

\* Lines 128-133.
TvEnd ==
    /\ extractor = "parse_spdx_tv" /\ pc = "loop"
    /\ pos = Len(content)
    /\ IF current_package # NoneDict
       THEN /\ current_package' = tv_finalized(current_package, current_ext_refs)
            /\ components' = Append(components, current_package')
       ELSE UNCHANGED <<components, current_package>>
    /\ result' = components'
    /\ pc' = "returned"
    /\ UNCHANGED <<call, raw, external_refs, input_file, content, src, ext,
                   extractor, pos, current_ext_refs, error, output_file>>
    /\ UNCHANGED <<frames, app_vars>>

----------------------------------------------------------------------------
(* parse_spdx_xml                                                          *)

\* An element: its tag as <<namespace, local name>> (the namespace "" or
\* "{uri}"), its text (None if it has none) and its children in order.
Element(ns, name, text, children) ==
    [tag |-> <<ns, name>>, text |-> text, children |-> children]

\* What ET.parse gives for the file: ParseError if not well-formed.
XmlDocument(wellformed, root) == [wellformed |-> wellformed, root |-> root]

\* el.findall(tag): the direct children with that tag, in document order
findall(el, tag) == SelectSeq(el.children, LAMBDA c : c.tag = tag)

\* a.findall(t1) or a.findall(t2)
findall_or(el, tag1, tag2) ==
    IF findall(el, tag1) # <<>> THEN findall(el, tag1) ELSE findall(el, tag2)

\* Line 139: the namespace of the root's tag.
xml_ns(root) == root.tag[1]

\* xml_packages were the two names of line 142 probed the other way round.
xml_packages_singular_first(root) ==
    findall_or(root, <<xml_ns(root), "package">>, <<xml_ns(root), "packages">>)

\* Line 142
xml_packages(root) ==
    findall_or(root, <<xml_ns(root), "packages">>, <<xml_ns(root), "package">>)

\* get_text without the `and el.text` of line 145: '' for a child
\* without text.
get_text_undefaulted(package, ns, tag) ==
    LET found == findall(package, <<ns, tag>>)
    IN  IF found = <<>> THEN NA
        ELSE IF Falsy(found[1].text) THEN <<>>
        ELSE strip(found[1].text)

\* get_text, lines 143-145: find gives the first child with the tag.
get_text(package, ns, tag) ==
    LET found == findall(package, <<ns, tag>>)
    IN  IF found # <<>> /\ ~Falsy(found[1].text) THEN strip(found[1].text)
        ELSE NA

\* Lines 148-149
xml_ref_elements(package, ns) ==
    findall_or(package, <<ns, "externalRefs">>, <<ns, "externalRef">>)

\* Lines 153-154: .text.strip() of the child if there is one, else ''.
xml_ref_field(ref, ns, tag) ==
    LET found == findall(ref, <<ns, tag>>)
    IN  IF found # <<>> THEN strip(found[1].text) ELSE <<>>

\* Lines 147-155
xml_ext_refs(package, ns) ==
    LET els == xml_ref_elements(package, ns)
    IN  [k \in 1..Len(els) |->
            [referenceCategory |-> xml_ref_field(els[k], ns, "referenceCategory"),
             referenceLocator  |-> xml_ref_field(els[k], ns, "referenceLocator")]]

\* The exception the refs loop raises, "" if none: None (the text of a
\* child without text) has no strip().
xml_refs_raise(package, ns) ==
    LET els == xml_ref_elements(package, ns)
    IN  IF \E k \in 1..Len(els) :
              \E tag \in {"referenceCategory", "referenceLocator"} :
                  /\ findall(els[k], <<ns, tag>>) # <<>>
                  /\ findall(els[k], <<ns, tag>>)[1].text = None
        THEN "AttributeError"
        ELSE ""

\* The dict literal of lines 157-169.
xml_record(package, ns) ==
    [SPDX_ID                 |-> get_text(package, ns, "SPDXID"),
     Name                    |-> get_text(package, ns, "name"),
     Version                 |-> get_text(package, ns, "versionInfo"),
     Supplier                |-> clean_supplier(get_text(package, ns, "supplier")),
     License_Declared        |-> get_text(package, ns, "licenseDeclared"),
     Copyright_Text          |-> get_text(package, ns, "copyrightText"),
     Download_Location       |-> get_text(package, ns, "downloadLocation"),
     Homepage                |-> get_text(package, ns, "homepage"),
     Description             |-> get_text(package, ns, "description"),
     Package_Manager_Locator |->
         extract_package_manager_locator(xml_ext_refs(package, ns))]

\* Lines 137-141.
XmlParse ==
    /\ extractor = "parse_spdx_xml" /\ pc = "open"
    /\ IF content.wellformed
       THEN /\ pc' = "loop"
            /\ UNCHANGED error
       ELSE /\ pc' = "raised"
            /\ error' = Exc("ParseError", <<>>)
    /\ pos' = 0
    /\ components' = <<>>
    /\ UNCHANGED <<call, raw, external_refs, input_file, content, src, ext,
                   extractor, current_package, current_ext_refs, result,
                   output_file>>
    /\ UNCHANGED <<frames, app_vars>>

\* One iteration of the loop of lines 142-169.
XmlPackage ==
    /\ extractor = "parse_spdx_xml" /\ pc = "loop"
    /\ pos < Len(xml_packages(content.root))
    /\ LET package == xml_packages(content.root)[pos + 1]
           ns      == xml_ns(content.root)
       IN  IF xml_refs_raise(package, ns) # ""
           THEN /\ pc' = "raised"
                /\ error' = Exc(xml_refs_raise(package, ns), <<>>)
                /\ UNCHANGED <<pos, components>>
           ELSE /\ components' = Append(components, xml_record(package, ns))
                /\ pos' = pos + 1
                /\ UNCHANGED <<pc, error>>
    /\ UNCHANGED <<call, raw, external_refs, input_file, content, src, ext,
                   extractor, current_package, current_ext_refs, result,
                   output_file>>
    /\ UNCHANGED <<frames, app_vars>>

\* Line 170.
XmlReturn ==
    /\ extractor = "parse_spdx_xml" /\ pc = "loop"
    /\ pos = Len(xml_packages(content.root))
    /\ result' = components
    /\ pc' = "returned"
    /\ UNCHANGED <<call, raw, external_refs, input_file, content, src, ext,
                   extractor, pos, components, current_package,
                   current_ext_refs, error, output_file>>
    /\ UNCHANGED <<frames, app_vars>>

----------------------------------------------------------------------------
(* parse_sbom                                                              *)

\* p.rfind(c): the last index of c in p, 0 if there is none
rfind(p, c) ==
    IF \E k \in 1..Len(p) : p[k] = c
    THEN CHOOSE k \in 1..Len(p) : p[k] = c /\ \A h \in (k + 1)..Len(p) : p[h] # c
    ELSE 0

\* os.path.splitext(p)[1]: from the last dot of the last component on,
\* unless only dots come before it in that component.
RECURSIVE splitext_from(_, _, _)
splitext_from(p, filenameIndex, dotIndex) ==
    IF filenameIndex >= dotIndex THEN <<>>
    ELSE IF p[filenameIndex] # "." THEN SubSeq(p, dotIndex, Len(p))
    ELSE splitext_from(p, filenameIndex + 1, dotIndex)

splitext_ext(p) ==
    LET sepIndex == rfind(p, "/")
        dotIndex == rfind(p, ".")
    IN  IF dotIndex > sepIndex THEN splitext_from(p, sepIndex + 1, dotIndex)
        ELSE <<>>

\* route without '.tv' in the tuple of line 177.
route_without_tv(e) ==
    IF e = ext_json THEN "parse_spdx_json"
    ELSE IF e = ext_spdx THEN "parse_spdx_tv"
    ELSE IF e = ext_xml THEN "parse_spdx_xml"
    ELSE ""

\* The branch of lines 175-182 taken for the lower-cased extension e:
\* the extractor called, "" for the else branch.
route(e) ==
    IF e = ext_json THEN "parse_spdx_json"
    ELSE IF e \in {ext_spdx, ext_tv} THEN "parse_spdx_tv"
    ELSE IF e = ext_xml THEN "parse_spdx_xml"
    ELSE ""

\* Lines 174-182, up to the call of the extractor.
ParseSbom ==
    /\ call = "parse_sbom" /\ pc = "start"
    /\ ext' = str_lower(splitext_ext(input_file))
    /\ extractor' = route(ext')
    /\ IF extractor' = ""
       THEN /\ pc' = "raised"
            /\ error' = Exc("ValueError", UnsupportedFormat \o ext')
       ELSE /\ pc' = "open"
            /\ UNCHANGED error
    /\ UNCHANGED <<call, raw, external_refs, input_file, content, src, pos,
                   components, current_package, current_ext_refs, result,
                   output_file>>
    /\ UNCHANGED <<frames, app_vars>>

----------------------------------------------------------------------------
(* save_to_csv                                                             *)

\* The text of each key of fieldnames, as writeheader writes it.
FieldText ==
    [SPDX_ID |-> <<"S","P","D","X","_","I","D">>,
     Name |-> <<"N","a","m","e">>,
     Version |-> <<"V","e","r","s","i","o","n">>,
     Supplier |-> <<"S","u","p","p","l","i","e","r">>,
     License_Declared |-> <<"L","i","c","e","n","s","e","_","D","e","c","l","a","r","e","d">>,
     Copyright_Text |-> <<"C","o","p","y","r","i","g","h","t","_","T","e","x","t">>,
     Download_Location |-> <<"D","o","w","n","l","o","a","d","_","L","o","c","a","t","i","o","n">>,
     Homepage |-> <<"H","o","m","e","p","a","g","e">>,
     Description |-> <<"D","e","s","c","r","i","p","t","i","o","n">>,
     Package_Manager_Locator |-> <<"P","a","c","k","a","g","e","_","M","a","n","a","g","e","r","_","L","o","c","a","t","o","r">>]

\* csv.writer, excel dialect: None is written as the empty string; a field
\* holding the delimiter, the quote character or a character of the line
\* terminator is quoted, its quote characters doubled.
csv_needs_quotes(text) ==
    \E k \in 1..Len(text) : text[k] \in {",", "\"", "\r", "\n"}

RECURSIVE csv_double_quotes(_)
csv_double_quotes(text) ==
    IF text = <<>> THEN <<>>
    ELSE (IF Head(text) = "\"" THEN <<"\"", "\"">> ELSE <<Head(text)>>)
            \o csv_double_quotes(Tail(text))

csv_field(v) ==
    LET text == IF v = None THEN <<>> ELSE v
    IN  IF csv_needs_quotes(text)
        THEN <<"\"">> \o csv_double_quotes(text) \o <<"\"">>
        ELSE text

\* writer.writerow: the fields joined with ',' and ended with '\r\n'
csv_row(values) ==
    str_join(<<",">>, [k \in 1..Len(values) |-> csv_field(values[k])])
        \o <<"\r", "\n">>

\* DictWriter: the values of a record in the order of fieldnames
csv_dict_values(record) == [k \in 1..Len(fieldnames) |-> record[fieldnames[k]]]

RECURSIVE csv_rows(_)
csv_rows(records) ==
    IF records = <<>> THEN <<>>
    ELSE csv_row(csv_dict_values(Head(records))) \o csv_rows(Tail(records))

\* Lines 186-194: the text of output_file.
save_to_csv(records) ==
    csv_row([k \in 1..Len(fieldnames) |-> FieldText[fieldnames[k]]])
        \o csv_rows(records)

\* The caller saves the records a parse returned.
SaveToCsv ==
    /\ call = "parse_sbom" /\ pc = "returned"
    /\ output_file' = save_to_csv(result)
    /\ pc' = "saved"
    /\ UNCHANGED <<call, raw, external_refs, input_file, content, src, ext,
                   extractor, pos, components, current_package,
                   current_ext_refs, result, error>>
    /\ UNCHANGED <<frames, app_vars>>

----------------------------------------------------------------------------
(* The files parsed: SpecParse.                                            *)

MaxPackages == 2

\* The keys of a package object (and the local names of the children of a
\* package element), with the tag of the tag-value line of each.
ScalarKeys ==
    <<"SPDXID", "name", "versionInfo", "supplier", "licenseDeclared",
      "copyrightText", "downloadLocation", "homepage", "description">>

ScalarKeySet == {ScalarKeys[k] : k \in 1..Len(ScalarKeys)}

PackageKeySet == ScalarKeySet \cup {"externalRefs"}

TagOfKey ==
    [SPDXID |-> tag_SPDXID, name |-> tag_PackageName,
     versionInfo |-> tag_PackageVersion, supplier |-> tag_PackageSupplier,
     licenseDeclared |-> tag_PackageLicenseDeclared,
     copyrightText |-> tag_PackageCopyrightText,
     downloadLocation |-> tag_PackageDownloadLocation,
     homepage |-> tag_PackageHomePage, description |-> tag_PackageDescription]

Ref(category, type, locator) ==
    [referenceCategory |-> category, referenceType |-> type,
     referenceLocator |-> locator]

t_purl == <<"p","u","r","l">>
t_cpe == <<"c","p","e">>
cat_PACKAGE_MANAGER_underscore == <<"P","A","C","K","A","G","E","_","M","A","N","A","G","E","R">>
cat_package_manager_lower == <<"p","a","c","k","a","g","e","-","m","a","n","a","g","e","r">>
cat_SECURITY == <<"S","E","C","U","R","I","T","Y">>

RefsOne == <<Ref(PACKAGE_MANAGER, t_purl, <<"p">>)>>

RefsMixed ==
    <<Ref(cat_SECURITY, t_cpe, <<"q">>),
      Ref(cat_PACKAGE_MANAGER_underscore, t_purl, <<"p">>),
      Ref(cat_package_manager_lower, t_purl, <<"q">>)>>

RefsPadded == <<Ref(PACKAGE_MANAGER, t_purl, <<" ", "p">>)>>

RefsSpaced == <<Ref(PACKAGE_MANAGER, t_purl, <<"p", " ", "q">>)>>

\* A package with every field populated, as a JSON package object.
BasePackage ==
    [SPDXID |-> <<"i">>, name |-> <<"n">>, versionInfo |-> <<"1">>,
     supplier |-> pfx_Organization \o <<" ", "A">>,
     licenseDeclared |-> <<"l">>, copyrightText |-> <<"c">>,
     downloadLocation |-> <<"d">>, homepage |-> <<"h">>,
     description |-> <<"e">>, externalRefs |-> RefsOne]

\* Fully populated packages: the name with or without padding, the
\* supplier with or without a prefix and padding, a description with a
\* comma and quotes, and one or several references.
FullPackages ==
    {[BasePackage EXCEPT !.name = nm, !.supplier = su, !.description = de,
                         !.externalRefs = rf] :
        nm \in {<<"n">>, <<" ", "n", " ">>},
        su \in {<<"A">>, pfx_Organization \o <<" ", "A">>,
                <<" ">> \o pfx_Tool \o <<" ", "A">>,
                pfx_Person \o <<"A", " ", "b">>},
        de \in {<<"e">>, <<"e", ",", " ", "\"", "x", "\"">>},
        rf \in {RefsOne, RefsMixed, RefsPadded, RefsSpaced}}

\* A dict with only the keys of S
Restrict(d, S) == [k \in S |-> d[k]]

\* Package objects with any subset of the keys.
PartialPackages == {Restrict(BasePackage, S) : S \in SUBSET PackageKeySet}

\* Package objects with a null: one field, or every scalar field.
NullPackages ==
    {[BasePackage EXCEPT ![k] = None] : k \in ScalarKeySet}
    \cup {[k \in PackageKeySet |->
              IF k = "externalRefs" THEN RefsOne ELSE None]}

\* Package objects with a text a csv writer must quote, and with reference
\* entries that lack a sub-field or hold a null.
OddPackages ==
    {[BasePackage EXCEPT !.copyrightText = <<"c", "\n", "d">>],
     [BasePackage EXCEPT !.homepage = <<"\r">>],
     [BasePackage EXCEPT !.externalRefs = <<[referenceCategory |-> PACKAGE_MANAGER]>>],
     [BasePackage EXCEPT !.externalRefs = <<[referenceLocator |-> <<"p">>]>>],
     [BasePackage EXCEPT !.externalRefs =
          <<[referenceCategory |-> None, referenceLocator |-> <<"p">>]>>],
     [BasePackage EXCEPT !.externalRefs =
          <<[referenceCategory |-> PACKAGE_MANAGER, referenceLocator |-> None]>>]}

\* Three packages told apart by their names, for files with several.
NamedPackages ==
    {[BasePackage EXCEPT !.name = nm] : nm \in {<<"a">>, <<"b">>, <<"c">>}}

JsonDocument(packages) == JsonValue("object", [packages |-> packages])

\* JSON files: one package of each kind, several packages, an object
\* without 'packages', and the contents that are no object.
JsonFiles ==
    {JsonDocument(<<package>>) :
        package \in PartialPackages \cup NullPackages \cup OddPackages}
    \cup {JsonDocument(packages) : packages \in SeqsUpTo(NamedPackages, MaxPackages)}
    \cup {JsonValue("object", [spdxVersion |-> <<"2">>])}
    \cup {JsonValue(kind, <<>>) :
            kind \in {"undecodable", "array", "string", "number", "null", "bool"}}

\* The tag-value lines of a package: its name first, then a line per
\* field, then a line per reference.
TvFieldLine(key, value) == TagOfKey[key] \o <<" ">> \o value \o <<"\n">>

TvRefLine(ref) ==
    tag_ExternalRef \o <<" ">> \o ref.referenceCategory \o <<" ">>
        \o ref.referenceType \o <<" ">> \o ref.referenceLocator \o <<"\n">>

TvLinesOf(package) ==
    <<TvFieldLine("name", package.name)>>
    \o [k \in 1..(Len(ScalarKeys) - 2) |->
           LET key == SelectSeq(ScalarKeys, LAMBDA x : x # "name")[k]
           IN  TvFieldLine(key, package[key])]
    \o <<TvFieldLine("description", package.description)>>
    \o [k \in 1..Len(package.externalRefs) |-> TvRefLine(package.externalRefs[k])]

\* The element of a package: a child per field, then one per reference.
RefKeys == <<"referenceCategory", "referenceType", "referenceLocator">>

XmlRefElement(ns, name, ref) ==
    Element(ns, name, None,
        [k \in 1..Len(SelectSeq(RefKeys, LAMBDA x : x \in DOMAIN ref)) |->
            LET key == SelectSeq(RefKeys, LAMBDA x : x \in DOMAIN ref)[k]
            IN  Element(ns, key, ref[key], <<>>)])

XmlPackageElement(ns, name, refname, package) ==
    Element(ns, name, None,
        [k \in 1..Len(SelectSeq(ScalarKeys, LAMBDA x : x \in DOMAIN package)) |->
            LET key == SelectSeq(ScalarKeys, LAMBDA x : x \in DOMAIN package)[k]
            IN  Element(ns, key, package[key], <<>>)]
        \o (IF "externalRefs" \in DOMAIN package
            THEN [k \in 1..Len(package.externalRefs) |->
                     XmlRefElement(ns, refname, package.externalRefs[k])]
            ELSE <<>>))

XmlFile(ns, elements) ==
    XmlDocument(TRUE, Element(ns, "Document", None, elements))

Namespaces == {"", "{u}"}

\* Package elements with a child that has no text, or only whitespace.
XmlOddPackages ==
    {[BasePackage EXCEPT ![k] = None] : k \in ScalarKeySet}
    \cup {[BasePackage EXCEPT !.versionInfo = <<" ">>],
          [BasePackage EXCEPT !.externalRefs = <<[referenceCategory |-> PACKAGE_MANAGER]>>],
          [BasePackage EXCEPT !.externalRefs = <<[referenceLocator |-> <<"p">>]>>]}

XmlOddRefElement(ns) ==
    Element(ns, "externalRefs", None,
        <<Element(ns, "referenceCategory", None, <<>>),
          Element(ns, "referenceLocator", <<"p">>, <<>>)>>)

\* Documents whose root has other children than package elements, or
\* package elements of both names.
XmlMixedFiles ==
    LET pa == [BasePackage EXCEPT !.name = <<"a">>]
        pb == [BasePackage EXCEPT !.name = <<"b">>]
    IN  {XmlFile("", <<Element("", "creationInfo", None, <<>>),
                       XmlPackageElement("", "packages", "externalRefs", pb),
                       Element("", "relationships", None, <<>>),
                       XmlPackageElement("", "packages", "externalRefs", pa)>>),
         XmlFile("", <<XmlPackageElement("", "packages", "externalRefs", pa),
                       XmlPackageElement("", "package", "externalRefs", pb)>>),
         XmlFile("", <<XmlPackageElement("", "package", "externalRefs", pb),
                       XmlPackageElement("", "packages", "externalRefs", pa)>>)}

\* XML files: one package of each kind under either namespace, the
\* singular element names, several packages, a reference whose category
\* has no text, package elements of both names, and a file that is not
\* well-formed.
XmlFiles ==
    {XmlFile(ns, <<XmlPackageElement(ns, "packages", "externalRefs", package)>>) :
        ns \in Namespaces, package \in PartialPackages}
    \cup {XmlFile("", <<XmlPackageElement("", "packages", "externalRefs", package)>>) :
            package \in XmlOddPackages}
    \cup {XmlFile("", <<XmlPackageElement("", "package", "externalRef", BasePackage)>>)}
    \cup {XmlFile("", [k \in 1..Len(packages) |->
                          XmlPackageElement("", "packages", "externalRefs", packages[k])]) :
            packages \in SeqsUpTo(NamedPackages, MaxPackages)}
    \cup {XmlFile("", <<Element("", "packages", None, <<XmlOddRefElement("")>>)>>)}
    \cup {XmlFile("", [k \in 1..Len(packages) |->
                          XmlPackageElement("", "package", "externalRef", packages[k])]) :
            packages \in SeqsUpTo(NamedPackages, MaxPackages)}
    \cup XmlMixedFiles
    \cup {XmlDocument(FALSE, Element("", "", None, <<>>))}

PathsJson == {<<"a",".","j","s","o","n">>, <<"d",".","x","/","B",".","J","S","O","N">>}
PathsTv == {<<"a",".","s","p","d","x">>, <<"a",".","t","v">>, <<"A",".","T","v">>}
PathsXml == {<<"a",".","x","m","l">>, <<".","a",".","X","m","L">>}
PathsOther ==
    {<<"a",".","y","a","m","l">>, <<"a",".","Y","A","M","L">>, <<"a">>, <<".","j","s","o","n">>, <<".",".","x","m","l">>, <<"a",".","j","s","o","n","/","b">>, <<"a",".","j","s","o","n","x">>, <<"a",".">>, <<"a",".","j","s","o","n",".","b","a","k">>}

ParseStart ==
    /\ call = "parse_sbom" /\ pc = "start"
    /\ raw = <<>> /\ external_refs = <<>>
    /\ ext = <<>> /\ extractor = "" /\ pos = 0 /\ components = <<>>
    /\ current_package = NoneDict /\ current_ext_refs = <<>>
    /\ result = <<>> /\ error = NoError /\ output_file = None

InitParse ==
    /\ NoApp
    /\ ParseStart
    /\ \/ /\ input_file \in PathsJson
          /\ \/ content \in JsonFiles /\ src = NoneDict
             \/ src \in FullPackages /\ content = JsonDocument(<<src>>)
       \/ /\ input_file \in PathsTv
          /\ src \in FullPackages /\ content = TvLinesOf(src)
       \/ /\ input_file \in PathsXml
          /\ \/ content \in XmlFiles /\ src = NoneDict
             \/ /\ src \in FullPackages
                /\ \E ns \in Namespaces :
                      content = XmlFile(ns, <<XmlPackageElement(ns, "packages",
                                                  "externalRefs", src)>>)
       \/ /\ input_file \in PathsOther
          /\ content = <<>> /\ src = NoneDict

NextParse ==
    \/ ParseSbom
    \/ JsonLoad \/ JsonPackage \/ JsonReturn
    \/ TvOpen \/ TvLine \/ TvEnd
    \/ XmlParse \/ XmlPackage \/ XmlReturn
    \/ SaveToCsv

SpecParse == InitParse /\ [][NextParse]_vars

----------------------------------------------------------------------------
(* The tag-value extractor on any lines: SpecTV.                           *)

\* The lines a file is made of: a blank line, a comment, two package names
\* (one indented, without a space after the tag), an identifier, a
\* supplier, two package-manager references (one with a fourth token), a
\* reference of two tokens only and a line with none of the tags.
line_blank == <<"\n">>
line_comment == <<"#"," ","P","a","c","k","a","g","e","N","a","m","e",":"," ","z","\n">>
line_name_a == <<"P","a","c","k","a","g","e","N","a","m","e",":"," ","a","\n">>
line_name_b == <<" "," ","P","a","c","k","a","g","e","N","a","m","e",":","b"," "," ","\n">>
line_spdxid == <<"S","P","D","X","I","D",":"," ","i","\n">>
line_supplier == <<"P","a","c","k","a","g","e","S","u","p","p","l","i","e","r",":"," ","P","e","r","s","o","n",":"," ","A","\n">>
line_ref_p == <<"E","x","t","e","r","n","a","l","R","e","f",":"," ","P","A","C","K","A","G","E","-","M","A","N","A","G","E","R"," ","p","u","r","l"," ","p"," ","x","\n">>
line_ref_q == <<"E","x","t","e","r","n","a","l","R","e","f",":"," ","p","a","c","k","a","g","e","_","m","a","n","a","g","e","r"," ","p","u","r","l"," "," ","q","\n">>
line_ref_short == <<"E","x","t","e","r","n","a","l","R","e","f",":"," ","P","A","C","K","A","G","E","-","M","A","N","A","G","E","R"," ","p","\n">>
line_other == <<"F","i","l","e","s","A","n","a","l","y","z","e","d",":"," ","f","a","l","s","e","\n">>

TvLines ==
    {line_blank, line_comment, line_name_a, line_name_b, line_spdxid,
     line_supplier, line_ref_p, line_ref_q, line_ref_short, line_other}

InitTV ==
    /\ NoApp
    /\ call = "parse_spdx_tv" /\ pc = "open"
    /\ extractor = "parse_spdx_tv"
    /\ input_file = <<>> /\ ext = <<>> /\ src = NoneDict
    /\ content \in SeqsUpTo(TvLines, MaxLines)
    /\ raw = <<>> /\ external_refs = <<>>
    /\ pos = 0 /\ components = <<>>
    /\ current_package = NoneDict /\ current_ext_refs = <<>>
    /\ result = <<>> /\ error = NoError /\ output_file = None

NextTV == TvOpen \/ TvLine \/ TvEnd

SpecTV == InitTV /\ [][NextTV]_vars

----------------------------------------------------------------------------
(* Concurrent calls of parse_sbom: SpecCalls.                              *)
(*                                                                         *)
(* Every name the parsing functions assign is a local of the call: the     *)
(* module has no global they write, no default argument they mutate, and   *)
(* tag_map is a dict literal built anew in the loop.  A call is a frame    *)
(* holding its locals, and a step of a call reads and writes its frame.    *)

MaxCalls == 2

\* The locals of a call of parse_sbom(input_file) on a file holding content.
Frame(path, file) ==
    [input_file |-> path, content |-> file, ext |-> <<>>, extractor |-> "",
     pc |-> "start", pos |-> 0, components |-> <<>>,
     current_package |-> NoneDict, current_ext_refs |-> <<>>,
     result |-> <<>>, error |-> NoError]

\* parse_sbom, lines 174-182, up to the call of the extractor.
frame_dispatch(f) ==
    LET e == str_lower(splitext_ext(f.input_file)) IN
    IF route(e) = ""
    THEN [f EXCEPT !.ext = e, !.pc = "raised",
                   !.error = Exc("ValueError", UnsupportedFormat \o e)]
    ELSE [f EXCEPT !.ext = e, !.extractor = route(e), !.pc = "open"]

\* A step of parse_spdx_json, lines 46-65.
frame_json(f) ==
    IF f.pc = "open"
    THEN IF json_load_raises(f.content) # ""
         THEN [f EXCEPT !.pc = "raised",
                        !.error = Exc(json_load_raises(f.content), <<>>)]
         ELSE [f EXCEPT !.pc = "loop"]
    ELSE IF f.pos = Len(json_packages(f.content))
    THEN [f EXCEPT !.result = f.components, !.pc = "returned"]
    ELSE LET package == json_packages(f.content)[f.pos + 1] IN
         IF json_record_raises(package) # ""
         THEN [f EXCEPT !.pc = "raised",
                        !.error = Exc(json_record_raises(package), <<>>)]
         ELSE [f EXCEPT !.components = Append(@, json_record(package)),
                        !.pos = @ + 1]

\* A step of parse_spdx_tv, lines 69-133.
frame_tv(f) ==
    IF f.pc = "open" THEN [f EXCEPT !.pc = "loop"]
    ELSE IF f.pos = Len(f.content)
    THEN LET closed == IF f.current_package # NoneDict
                       THEN Append(f.components,
                                   tv_finalized(f.current_package, f.current_ext_refs))
                       ELSE f.components
         IN  [f EXCEPT !.components = closed, !.result = closed,
                       !.current_package =
                            IF @ # NoneDict THEN tv_finalized(@, f.current_ext_refs)
                            ELSE @,
                       !.pc = "returned"]
    ELSE LET line == strip(f.content[f.pos + 1]) IN
         IF line = <<>> \/ startswith(line, <<"#">>)
         THEN [f EXCEPT !.pos = @ + 1]
         ELSE IF startswith(line, tag_PackageName)
         THEN [f EXCEPT !.pos = @ + 1,
                        !.components =
                            IF f.current_package # NoneDict
                            THEN Append(@, tv_finalized(f.current_package,
                                                        f.current_ext_refs))
                            ELSE @,
                        !.current_package = tv_new_package(line),
                        !.current_ext_refs = <<>>]
         ELSE IF f.current_package # NoneDict
         THEN [f EXCEPT !.pos = @ + 1,
                        !.current_package = tv_apply_tags(@, line, 1),
                        !.current_ext_refs = tv_apply_ref(@, line)]
         ELSE [f EXCEPT !.pos = @ + 1]

\* A step of parse_spdx_xml, lines 137-170.
frame_xml(f) ==
    IF f.pc = "open"
    THEN IF f.content.wellformed THEN [f EXCEPT !.pc = "loop"]
         ELSE [f EXCEPT !.pc = "raised", !.error = Exc("ParseError", <<>>)]
    ELSE IF f.pos = Len(xml_packages(f.content.root))
    THEN [f EXCEPT !.result = f.components, !.pc = "returned"]
    ELSE LET package == xml_packages(f.content.root)[f.pos + 1]
             ns      == xml_ns(f.content.root)
         IN  IF xml_refs_raise(package, ns) # ""
             THEN [f EXCEPT !.pc = "raised",
                            !.error = Exc(xml_refs_raise(package, ns), <<>>)]
             ELSE [f EXCEPT !.components = Append(@, xml_record(package, ns)),
                            !.pos = @ + 1]

\* The call is over: it returned or raised.
frame_done(f) == f.pc \in {"returned", "raised"}

\* The next step of a call that is not over.
frame_step(f) ==
    IF f.pc = "start" THEN frame_dispatch(f)
    ELSE IF f.extractor = "parse_spdx_json" THEN frame_json(f)
    ELSE IF f.extractor = "parse_spdx_tv" THEN frame_tv(f)
    ELSE frame_xml(f)

\* The call run to its end with no other call around.
RECURSIVE frame_run(_)
frame_run(f) == IF frame_done(f) THEN f ELSE frame_run(frame_step(f))

\* The files the concurrent calls parse.
CallFiles ==
    LET pa == [BasePackage EXCEPT !.name = <<"a">>, !.externalRefs = RefsMixed]
        pb == [BasePackage EXCEPT !.name = <<"b">>, !.externalRefs = <<>>]
    IN  {Frame(<<"a",".","s","p","d","x">>,
               <<line_name_a, line_ref_p, line_supplier, line_ref_q>>),
         Frame(<<"b",".","t","v">>,
               <<line_name_b, line_spdxid, line_name_a, line_ref_q>>),
         Frame(<<"a",".","j","s","o","n">>, JsonDocument(<<pa, pb>>)),
         Frame(<<"b",".","j","s","o","n">>, JsonValue("array", <<>>)),
         Frame(<<"a",".","x","m","l">>,
               XmlFile("", <<XmlPackageElement("", "packages", "externalRefs", pb),
                             XmlPackageElement("", "packages", "externalRefs", pa)>>)),
         Frame(<<"a",".","y","a","m","l">>, <<>>)}

\* The step were current_ext_refs a name of the module, one list for all
\* the calls.
CallStep_shared_refs(t) ==
    /\ t \in DOMAIN frames
    /\ ~frame_done(frames[t])
    /\ frames' = [u \in DOMAIN frames |->
                    [(IF u = t THEN frame_step(frames[t]) ELSE frames[u])
                        EXCEPT !.current_ext_refs =
                                    frame_step(frames[t]).current_ext_refs]]
    /\ UNCHANGED <<core_vars, app_vars>>

\* One step of the call t, the other calls being wherever they are.
CallStep(t) ==
    /\ t \in DOMAIN frames
    /\ ~frame_done(frames[t])
    /\ frames' = [frames EXCEPT ![t] = frame_step(frames[t])]
    /\ UNCHANGED <<core_vars, app_vars>>

InitCalls ==
    /\ call = "parse_sbom" /\ pc = "" /\ raw = <<>> /\ external_refs = <<>>
    /\ result = <<>> /\ error = NoError
    /\ NoParse /\ NoWindow
    /\ frames \in [1..MaxCalls -> CallFiles]

NextCalls == \E t \in 1..MaxCalls : CallStep(t)

SpecCalls == InitCalls /\ [][NextCalls]_vars

----------------------------------------------------------------------------
(* The application window, SBOMParserApp: SpecApp.                         *)
(*                                                                         *)
(* The handlers run on the Tk main loop, one at a time, each to its end.   *)
(* A parse runs on a thread of its own (line 772) and hands its outcome    *)
(* back with after(0, ...), which queues a callback for the main loop.     *)

\* The parse worker threads there can be at a time in the model.
MaxThreads == 2

\* 'Filter components…', its last character written by its code point.
_FILTER_PLACEHOLDER == <<"F","i","l","t","e","r"," ","c","o","m","p","o","n","e","n","t","s","U+2026">>
NOASSERTION == <<"N","O","A","S","S","E","R","T","I","O","N">>
str_None == <<"N","o","n","e">>
components_suffix == <<"_","c","o","m","p","o","n","e","n","t","s","_">>
csv_suffix == <<".","c","s","v">>

\* The characters the values are written with, in code point order.
CodePoints == <<" ","#","(",")","+",",","-",".","/","0","1","2","3","4","5","6","7","8","9",":",";","=","@","A","B","C","D","E","F","G","H","I","J","K","L","M","N","O","P","Q","R","S","T","U","V","W","X","Y","Z","_","a","b","c","d","e","f","g","h","i","j","k","l","m","n","o","p","q","r","s","t","u","v","w","x","y","z">>

\* The place of a character in that order, which is the order of ord(c).
Ord(c) == CHOOSE k \in 1..Len(CodePoints) : CodePoints[k] = c

\* a < b for two texts, as Python compares str: by the first character
\* in which they differ, a proper prefix being the lesser.
RECURSIVE str_less(_, _)
str_less(a, b) ==
    IF b = <<>> THEN FALSE
    ELSE IF a = <<>> THEN TRUE
    ELSE IF a[1] = b[1] THEN str_less(Tail(a), Tail(b))
    ELSE Ord(a[1]) < Ord(b[1])

\* q in s
str_contains(s, q) ==
    \E k \in 0..Len(s) : k + Len(q) <= Len(s) /\ SubSeq(s, k + 1, k + Len(q)) = q

\* str(v) of a field value
str(v) == IF v = None THEN str_None ELSE v

\* The status bar: the message _set_status showed last and the count it
\* names, 0 if it names none.
Status(msg, n) == [msg |-> msg, n |-> n]

\* tuple(comp.values()) as the table shows it: the ten values in the order
\* of the record's keys, which is that of COLUMNS.
row_values(comp) == [k \in 1..Len(fieldnames) |-> str(comp[fieldnames[k]])]

\* _populate_table, lines 801-810: the rows of the table after it.
_populate_table(records) ==
    [i \in 1..Len(records) |->
        [iid    |-> i - 1,
         values |-> row_values(records[i]),
         tags   |-> IF records[i].Package_Manager_Locator = NA
                    THEN <<IF (i - 1) % 2 = 1 THEN "odd" ELSE "even", "no_purl">>
                    ELSE <<IF (i - 1) % 2 = 1 THEN "odd" ELSE "even">>]]

\* _update_stats with `==` for the `!=` of line 818.
_update_stats_inverted(records) ==
    LET with_p == Cardinality({k \in 1..Len(records) :
                                  records[k].Package_Manager_Locator = NA})
    IN  [total    |-> Len(records),
         purl     |-> with_p,
         no_purl  |-> Len(records) - with_p,
         licenses |-> Cardinality({records[k].License_Declared : k \in 1..Len(records)}
                                  \ {NA, NOASSERTION, <<>>})]

\* _update_stats, lines 815-825: what the four cards are set to.
_update_stats(records) ==
    LET with_p == Cardinality({k \in 1..Len(records) :
                                  records[k].Package_Manager_Locator # NA})
    IN  [total    |-> Len(records),
         purl     |-> with_p,
         no_purl  |-> Len(records) - with_p,
         licenses |-> Cardinality({records[k].License_Declared : k \in 1..Len(records)}
                                  \ {NA, NOASSERTION, <<>>})]

\* The loop of lines 846-856: the records the filter keeps.
filtered_components(records, query, col) ==
    SelectSeq(records, LAMBDA comp :
        IF col = "All"
        THEN \E k \in 1..Len(fieldnames) :
                 str_contains(str_lower(row_values(comp)[k]), query)
        ELSE LET idx == IF \E k \in 1..Len(fieldnames) : fieldnames[k] = col
                        THEN CHOOSE k \in 1..Len(fieldnames) : fieldnames[k] = col
                        ELSE 1
             IN  str_contains(str_lower(row_values(comp)[idx]), query))

\* _apply_filter, lines 829-861, with the filter entry holding filter_var
\* and the combobox filter_col: the table and the status bar after it.
_apply_filter(filter_var, filter_col) ==
    IF _components = <<>> THEN UNCHANGED <<_tree, _status>>
    ELSE LET raw_text == strip(filter_var)
             query    == IF raw_text = _FILTER_PLACEHOLDER THEN <<>>
                         ELSE str_lower(raw_text)
         IN  IF query = <<>>
             THEN /\ _tree' = _populate_table(_components)
                  /\ _status' = Status("Showing all", Len(_components))
             ELSE /\ _tree' = _populate_table(
                                  filtered_components(_components, query, filter_col))
                  /\ _status' = Status("Filter",
                        Len(filtered_components(_components, query, filter_col)))

\* list.sort(key=..., reverse=...) of line 869 on the rows: stable, and
\* with reverse the rows of equal key keep their order too.
RECURSIVE sorted_rows(_, _, _)
sorted_rows(rows, col, reverse) ==
    IF rows = <<>> THEN <<>>
    ELSE LET key(r) == str_lower(r.values[col])
             before(a, b) == IF reverse THEN str_less(key(b), key(a))
                             ELSE str_less(key(a), key(b))
             first == CHOOSE k \in 1..Len(rows) :
                          /\ \A j \in 1..Len(rows) : ~before(rows[j], rows[k])
                          /\ \A j \in 1..(k - 1) : before(rows[k], rows[j])
         IN  <<rows[first]>> \o
             sorted_rows([j \in 1..(Len(rows) - 1) |->
                             IF j < first THEN rows[j] ELSE rows[j + 1]],
                         col, reverse)

\* Lines 870-875: the rows in their new places, each with the tag of its
\* place after the tags it keeps.
retagged(rows) ==
    [idx \in 1..Len(rows) |->
        [rows[idx] EXCEPT !.tags =
            SelectSeq(@, LAMBDA tg : tg \notin {"odd", "even"})
            \o <<IF (idx - 1) % 2 = 1 THEN "odd" ELSE "even">>]]

\* os.path.exists: the files there are, each with its content.
AppFiles ==
    LET pa == [BasePackage EXCEPT !.name = <<"a">>, !.externalRefs = RefsMixed]
        pb == [BasePackage EXCEPT !.name = <<"B">>, !.externalRefs = <<>>,
                                  !.licenseDeclared = NOASSERTION]
    IN  {Frame(<<"a",".","j","s","o","n">>, JsonDocument(<<pb, pa>>)),
         Frame(<<"b",".","t","v">>, <<line_name_a, line_ref_q>>),
         Frame(<<"c",".","y","a","m","l">>, <<>>)}

AppPaths == {f.input_file : f \in AppFiles}

MissingPath == <<" ","m",".","x","m","l">>

FileAt(path) == CHOOSE f \in AppFiles : f.input_file = path

TimeStamps == {<<"2","0","2","6","0","2","1","8","_","1","2","0","0","0","0">>}

\* The variables of the parsing functions a handler leaves alone: all but
\* the file save_to_csv writes.
core_but_output ==
    <<call, pc, raw, external_refs, input_file, content, src, ext, extractor,
      pos, components, current_package, current_ext_refs, result, error>>

\* _browse_input, lines 726-741, the dialog giving path ('' if cancelled)
\* at the time ts.
_browse_input(path, ts) ==
    /\ IF path # <<>>
       THEN /\ _input_path' = path
            /\ _output_path' =
                  IF _output_path = <<>>
                  THEN SubSeq(path, 1, Len(path) - Len(splitext_ext(path)))
                       \o components_suffix \o ts \o csv_suffix
                  ELSE _output_path
            /\ _status' = Status("Input selected", 0)
       ELSE UNCHANGED <<_input_path, _output_path, _status>>
    /\ UNCHANGED <<_filter_var, _filter_col, _sort_reverse, _parse_btn,
                   _progress, _components, _tree, _stat_total, _stat_purl,
                   _stat_no_purl, _stat_licenses, workers, after_queue>>
    /\ UNCHANGED <<core_vars, frames>>

\* _start_parse, lines 756-773.
_start_parse ==
    /\ Len(workers) < MaxThreads
    /\ LET in_file == strip(_input_path) IN
       IF in_file = <<>> \/ in_file \notin AppPaths
       THEN UNCHANGED <<_progress, _parse_btn, _status, _tree, workers>>
       ELSE /\ _progress' = TRUE
            /\ _parse_btn' = FALSE
            /\ _status' = Status("Parsing SBOM", 0)
            /\ _tree' = <<>>
            /\ workers' = Append(workers, [input_file |-> in_file])
    /\ UNCHANGED <<_input_path, _output_path, _filter_var, _filter_col,
                   _sort_reverse, _components, _stat_total, _stat_purl,
                   _stat_no_purl, _stat_licenses, after_queue>>
    /\ UNCHANGED <<core_vars, frames>>

\* The Parse button released with _on_release not looking at _enabled.
_on_release_unguarded == _start_parse

\* RoundedButton._on_release of the Parse button, lines 309-313: a press
\* on the disabled button does nothing.
_on_release == _parse_btn /\ _start_parse

\* parse_sbom(in_file) of line 777 for each file there is: how the call
\* ends, with the list it returns or the exception it raises.
parse_sbom_at == [path \in AppPaths |-> frame_run(FileAt(path))]

\* _parse_worker without its except clause: an exception ends the thread.
_parse_worker_uncaught(i) ==
    /\ i \in DOMAIN workers
    /\ LET outcome == parse_sbom_at[workers[i].input_file] IN
       after_queue' =
           IF outcome.pc = "returned"
           THEN Append(after_queue, [callback |-> "_on_parse_success",
                                     arg      |-> outcome.result])
           ELSE after_queue
    /\ workers' = [k \in 1..(Len(workers) - 1) |->
                       IF k < i THEN workers[k] ELSE workers[k + 1]]
    /\ UNCHANGED <<_input_path, _output_path, _filter_var, _filter_col,
                   _sort_reverse, _parse_btn, _progress, _components, _tree,
                   _stat_total, _stat_purl, _stat_no_purl, _stat_licenses,
                   _status>>
    /\ UNCHANGED <<core_vars, frames>>

\* _parse_worker, lines 775-780, on the i-th of the threads running: the
\* parse and the callback it queues, after which the thread is over.
_parse_worker(i) ==
    /\ i \in DOMAIN workers
    /\ LET outcome == parse_sbom_at[workers[i].input_file] IN
       after_queue' =
           IF outcome.pc = "returned"
           THEN Append(after_queue, [callback |-> "_on_parse_success",
                                     arg      |-> outcome.result])
           ELSE Append(after_queue, [callback |-> "_on_parse_error",
                                     arg      |-> outcome.error.msg])
    /\ workers' = [k \in 1..(Len(workers) - 1) |->
                       IF k < i THEN workers[k] ELSE workers[k + 1]]
    /\ UNCHANGED <<_input_path, _output_path, _filter_var, _filter_col,
                   _sort_reverse, _parse_btn, _progress, _components, _tree,
                   _stat_total, _stat_purl, _stat_no_purl, _stat_licenses,
                   _status>>
    /\ UNCHANGED <<core_vars, frames>>

\* _on_parse_success, lines 782-790, run by the main loop as the oldest
\* callback queued.
_on_parse_success ==
    /\ after_queue # <<>>
    /\ Head(after_queue).callback = "_on_parse_success"
    /\ after_queue' = Tail(after_queue)
    /\ _progress' = FALSE
    /\ _parse_btn' = TRUE
    /\ _components' = Head(after_queue).arg
    /\ _tree' = _populate_table(_components')
    /\ _stat_total' = _update_stats(_components').total
    /\ _stat_purl' = _update_stats(_components').purl
    /\ _stat_no_purl' = _update_stats(_components').no_purl
    /\ _stat_licenses' = _update_stats(_components').licenses
    /\ _status' = Status("Parsed", Len(_components'))
    /\ UNCHANGED <<_input_path, _output_path, _filter_var, _filter_col,
                   _sort_reverse, workers>>
    /\ UNCHANGED <<core_vars, frames>>

\* _on_parse_error, lines 792-797, run by the main loop as the oldest
\* callback queued.
_on_parse_error ==
    /\ after_queue # <<>>
    /\ Head(after_queue).callback = "_on_parse_error"
    /\ after_queue' = Tail(after_queue)
    /\ _progress' = FALSE
    /\ _parse_btn' = TRUE
    /\ _status' = Status("Error", 0)
    /\ UNCHANGED <<_input_path, _output_path, _filter_var, _filter_col,
                   _sort_reverse, _components, _tree, _stat_total,
                   _stat_purl, _stat_no_purl, _stat_licenses, workers>>
    /\ UNCHANGED <<core_vars, frames>>

\* The filter entry edited to text: the trace of line 378 runs
\* _apply_filter.
FilterTyped(text) ==
    /\ _filter_var' = text
    /\ _apply_filter(text, _filter_col)
    /\ UNCHANGED <<_input_path, _output_path, _filter_col, _sort_reverse,
                   _parse_btn, _progress, _components, _stat_total,
                   _stat_purl, _stat_no_purl, _stat_licenses, workers,
                   after_queue>>
    /\ UNCHANGED <<core_vars, frames>>

\* A column picked in the combobox: lines 590-591 run _apply_filter.
FilterColumnSelected(col) ==
    /\ _filter_col' = col
    /\ _apply_filter(_filter_var, col)
    /\ UNCHANGED <<_input_path, _output_path, _filter_var, _sort_reverse,
                   _parse_btn, _progress, _components, _stat_total,
                   _stat_purl, _stat_no_purl, _stat_licenses, workers,
                   after_queue>>
    /\ UNCHANGED <<core_vars, frames>>

\* _clear_filter, lines 714-722: the two writes of the entry run
\* _apply_filter, then the whole list is shown.
_clear_filter ==
    /\ _filter_var' = _FILTER_PLACEHOLDER
    /\ _filter_col' = "All"
    /\ _tree' = _populate_table(_components)
    /\ _status' = Status("Filter cleared", Len(_components))
    /\ UNCHANGED <<_input_path, _output_path, _sort_reverse, _parse_btn,
                   _progress, _components, _stat_total, _stat_purl,
                   _stat_no_purl, _stat_licenses, workers, after_queue>>
    /\ UNCHANGED <<core_vars, frames>>

\* _sort_column, lines 865-877; col is the place of the column in COLUMNS.
_sort_column(col) ==
    /\ _tree' = retagged(sorted_rows(_tree, col, fieldnames[col] \in _sort_reverse))
    /\ _sort_reverse' = IF fieldnames[col] \in _sort_reverse
                        THEN _sort_reverse \ {fieldnames[col]}
                        ELSE _sort_reverse \cup {fieldnames[col]}
    /\ UNCHANGED <<_input_path, _output_path, _filter_var, _filter_col,
                   _parse_btn, _progress, _components, _stat_total,
                   _stat_purl, _stat_no_purl, _stat_licenses, _status,
                   workers, after_queue>>
    /\ UNCHANGED <<core_vars, frames>>

\* _save_csv, lines 898-927: chosen is what the save dialog gives when no
\* output path is set ('' if cancelled), written whether the file could
\* be written.
_save_csv(chosen, written) ==
    /\ IF _components = <<>>
       THEN UNCHANGED <<_output_path, output_file, _status>>
       ELSE IF strip(_output_path) = <<>> /\ chosen = <<>>
       THEN UNCHANGED <<_output_path, output_file, _status>>
       ELSE /\ _output_path' = IF strip(_output_path) = <<>> THEN chosen
                               ELSE _output_path
            /\ IF written
               THEN /\ output_file' = save_to_csv(_components)
                    /\ _status' = Status("Saved", Len(_components))
               ELSE UNCHANGED <<output_file, _status>>
    /\ UNCHANGED <<_input_path, _filter_var, _filter_col, _sort_reverse,
                   _parse_btn, _progress, _components, _tree, _stat_total,
                   _stat_purl, _stat_no_purl, _stat_licenses, workers,
                   after_queue>>
    /\ UNCHANGED <<core_but_output, frames>>

\* _clear, lines 940-960.
_clear ==
    /\ _components' = <<>>
    /\ _tree' = <<>>
    /\ _input_path' = <<>>
    /\ _output_path' = <<>>
    /\ _filter_col' = "All"
    /\ _filter_var' = _FILTER_PLACEHOLDER
    /\ _stat_total' = 0
    /\ _stat_purl' = 0
    /\ _stat_no_purl' = 0
    /\ _stat_licenses' = 0
    /\ _status' = Status("Cleared", 0)
    /\ UNCHANGED <<_sort_reverse, _parse_btn, _progress, workers, after_queue>>
    /\ UNCHANGED <<core_vars, frames>>

\* The texts typed into the filter entry, the columns picked and sorted
\* by, and the path given to the save dialog.
FilterTexts == {<<>>, <<"A">>}
FilterColumns == {"Name"}
SortColumns == {2}
SavePaths == {<<>>, <<"o",".","c","s","v">>}

\* __init__, lines 354-380: the window as it opens.
InitApp ==
    /\ call = "SBOMParserApp" /\ pc = "mainloop"
    /\ raw = <<>> /\ external_refs = <<>>
    /\ result = <<>> /\ error = NoError
    /\ NoParse
    /\ frames = <<>>
    /\ _input_path = <<>> /\ _output_path = <<>>
    /\ _filter_var = _FILTER_PLACEHOLDER /\ _filter_col = "All"
    /\ _sort_reverse = {}
    /\ _parse_btn = TRUE /\ _progress = FALSE
    /\ _components = <<>> /\ _tree = <<>>
    /\ _stat_total = 0 /\ _stat_purl = 0 /\ _stat_no_purl = 0
    /\ _stat_licenses = 0
    /\ _status = Status("Ready", 0)
    /\ workers = <<>> /\ after_queue = <<>>

NextApp ==
    \/ \E path \in AppPaths \cup {MissingPath, <<>>}, ts \in TimeStamps :
          _browse_input(path, ts)
    \/ _on_release
    \/ \E i \in 1..MaxThreads : _parse_worker(i)
    \/ _on_parse_success
    \/ _on_parse_error
    \/ \E text \in FilterTexts : FilterTyped(text)
    \/ \E col \in FilterColumns : FilterColumnSelected(col)
    \/ _clear_filter
    \/ \E col \in SortColumns : _sort_column(col)
    \/ \E chosen \in SavePaths, written \in BOOLEAN : _save_csv(chosen, written)
    \/ _clear

SpecApp == InitApp /\ [][NextApp]_vars

\* A worker thread that is running goes on, and the main loop runs the
\* callbacks queued.
FairApp ==
    /\ \A i \in 1..MaxThreads : WF_vars(_parse_worker(i))
    /\ WF_vars(_on_parse_success)
    /\ WF_vars(_on_parse_error)

SpecAppFair == SpecApp /\ FairApp

----------------------------------------------------------------------------
(* Notions the properties are stated with.                                 *)

IsText(v) == v # None

\* s without its leading and trailing whitespace
Trimmed(s) ==
    IF \A k \in 1..Len(s) : IsSpace(s[k]) THEN <<>>
    ELSE LET a == CHOOSE k \in 1..Len(s) :
                      ~IsSpace(s[k]) /\ \A h \in 1..(k - 1) : IsSpace(s[h])
             b == CHOOSE k \in 1..Len(s) :
                      ~IsSpace(s[k]) /\ \A h \in (k + 1)..Len(s) : IsSpace(s[h])
         IN  SubSeq(s, a, b)

SupplierPrefixOrder == <<pfx_Organization, pfx_Person, pfx_Tool>>

HasSupplierPrefix(v) == \E k \in 1..3 : startswith(v, SupplierPrefixOrder[k])

\* The supplier the specification asks for: raw itself if empty or the
\* sentinel, else the rest after the first prefix that matches, trimmed,
\* else raw trimmed.
NormalizedSupplier(v) ==
    IF v = <<>> \/ v = NA THEN v
    ELSE IF HasSupplierPrefix(v)
         THEN LET k == CHOOSE j \in 1..3 :
                           /\ startswith(v, SupplierPrefixOrder[j])
                           /\ \A h \in 1..(j - 1) : ~startswith(v, SupplierPrefixOrder[h])
              IN  Trimmed(SubSeq(v, Len(SupplierPrefixOrder[k]) + 1, Len(v)))
    ELSE Trimmed(v)

CleanSupplierReturned == call = "clean_supplier" /\ pc = "returned"

----------------------------------------------------------------------------
(* C6 as stated: clean_supplier is total over text and returns raw         *)
(* unchanged if empty or 'N/A', else the trimmed rest after the first      *)
(* matching prefix, else raw trimmed, and never the sentinel for a         *)
(* non-sentinel input with no prefix.                                      *)
C6_AsStated ==
    /\ call = "clean_supplier" => pc \in {"start", "returned"}
    /\ (CleanSupplierReturned /\ IsText(raw)) =>
          /\ result = NormalizedSupplier(raw)
          /\ (raw # <<>> /\ raw # NA /\ ~HasSupplierPrefix(raw)) => result # NA

\* C6, amended: as stated, except that with no prefix the trimmed raw may
\* be the sentinel, exactly when raw is 'N/A' inside whitespace.
C6_CleanSupplier ==
    /\ call = "clean_supplier" => pc \in {"start", "returned"} /\ error = NoError
    /\ (CleanSupplierReturned /\ IsText(raw)) =>
          /\ result = NormalizedSupplier(raw)
          /\ (raw # <<>> /\ raw # NA /\ ~HasSupplierPrefix(raw)) =>
                (result = NA <=> Trimmed(raw) = NA)

\* A prefixed, padded supplier has been cleaned to its name.
C6_Witness ==
    /\ CleanSupplierReturned
    /\ raw = pfx_Person \o <<" ", "A", " ", "b", " ">>
    /\ result = <<"A", " ", "b">>

----------------------------------------------------------------------------
\* The locator the specification asks for: the locators of the entries
\* whose category, upper-cased and with '_' turned into '-', is
\* PACKAGE-MANAGER, in input order, joined with '; ', or the sentinel if
\* there is none.  An entry without a locator counts with 'N/A'.
IsPackageManagerRef(e) ==
    /\ "referenceCategory" \in DOMAIN e
    /\ Len(e.referenceCategory) = Len(PACKAGE_MANAGER)
    /\ \A k \in 1..Len(PACKAGE_MANAGER) :
          LET c == e.referenceCategory[k]
          IN  \/ UpperChar(c) = PACKAGE_MANAGER[k]
              \/ c = "_" /\ PACKAGE_MANAGER[k] = "-"

LocatorOfRef(e) ==
    IF "referenceLocator" \in DOMAIN e THEN e.referenceLocator ELSE NA

RECURSIVE JoinedLocators(_)
JoinedLocators(kept) ==
    IF Len(kept) = 1 THEN LocatorOfRef(kept[1])
    ELSE JoinedLocators(SubSeq(kept, 1, Len(kept) - 1))
            \o JoinSep \o LocatorOfRef(kept[Len(kept)])

AggregatedLocator(refs) ==
    LET kept == SelectSeq(refs, IsPackageManagerRef)
    IN  IF kept = <<>> THEN NA ELSE JoinedLocators(kept)

\* Every sub-field an entry holds is text.
TextRefs(refs) ==
    \A k \in 1..Len(refs) : \A key \in DOMAIN refs[k] : IsText(refs[k][key])

ExtractLocatorDone ==
    call = "extract_package_manager_locator" /\ pc \in {"returned", "raised"}

\* C7: for every sequence of reference entries, the call returns the
\* locators of exactly the PACKAGE-MANAGER entries (category upper-cased,
\* '_' as '-'), in input order, joined with '; ', and 'N/A' if none
\* survives.
C7_ExtractLocator ==
    (ExtractLocatorDone /\ TextRefs(external_refs)) =>
        /\ pc = "returned"
        /\ result = AggregatedLocator(external_refs)

\* Two entries survive the filter (one by case, one by underscore) and
\* their locators are joined in input order.
C7_Witness ==
    /\ ExtractLocatorDone
    /\ pc = "returned"
    /\ Len(external_refs) = 2
    /\ result = <<"q", ";", " ", "p">>
    /\ external_refs[1].referenceCategory # PACKAGE_MANAGER
    /\ external_refs[2].referenceCategory # PACKAGE_MANAGER
    /\ external_refs[1].referenceCategory # external_refs[2].referenceCategory

----------------------------------------------------------------------------
(* Properties of the parse: SpecParse.                                     *)

ParseDone == call = "parse_sbom" /\ pc \in {"returned", "saved", "raised"}

ParseReturned == call = "parse_sbom" /\ pc \in {"returned", "saved"}

\* The record field each key of a package is read into.
FieldOfKey ==
    [SPDXID |-> "SPDX_ID", name |-> "Name", versionInfo |-> "Version",
     supplier |-> "Supplier", licenseDeclared |-> "License_Declared",
     copyrightText |-> "Copyright_Text",
     downloadLocation |-> "Download_Location", homepage |-> "Homepage",
     description |-> "Description"]

\* C1: every record an extractor has produced holds all ten fields, none
\* of them null.
C1_AllFieldsPresent ==
    \A k \in 1..Len(components) :
        /\ DOMAIN components[k] = FieldSet
        /\ \A f \in FieldSet : components[k][f] # None

\* The lower-cased extension of a path: in its last component, the part
\* from the last dot on, if something other than dots comes before it.
PathExtension(path) ==
    LET start == IF \E k \in 1..Len(path) : path[k] = "/"
                 THEN 1 + CHOOSE k \in 1..Len(path) :
                              path[k] = "/" /\ \A h \in (k + 1)..Len(path) : path[h] # "/"
                 ELSE 1
        dots  == {k \in start..Len(path) :
                     /\ path[k] = "."
                     /\ \A h \in (k + 1)..Len(path) : path[h] # "."
                     /\ \E h \in start..(k - 1) : path[h] # "."}
    IN  IF dots = {} THEN <<>>
        ELSE LET d == CHOOSE k \in dots : TRUE
             IN  [k \in 1..(Len(path) - d + 1) |-> LowerChar(path[d + k - 1])]

\* C5: parse_sbom routes by the lower-cased extension alone: .json to the
\* JSON extractor, .spdx and .tv to the tag-value extractor, .xml to the
\* XML extractor; any other extension calls no extractor and raises an
\* error whose message names the lower-cased extension.
C5_Dispatch ==
    (call = "parse_sbom" /\ pc # "start") =>
        LET e == PathExtension(input_file) IN
        /\ ext = e
        /\ e = ext_json => extractor = "parse_spdx_json"
        /\ e \in {ext_spdx, ext_tv} => extractor = "parse_spdx_tv"
        /\ e = ext_xml => extractor = "parse_spdx_xml"
        /\ e \notin {ext_json, ext_spdx, ext_tv, ext_xml} =>
              /\ extractor = ""
              /\ pc = "raised"
              /\ error = Exc("ValueError", UnsupportedFormat \o e)
              /\ pos = 0 /\ components = <<>> /\ result = <<>>

\* A path with an upper-case extension under a dotted directory went to
\* the JSON extractor, which returned.
C5_Witness ==
    /\ ParseReturned
    /\ input_file = <<"d", ".", "x", "/", "B", ".", "J", "S", "O", "N">>
    /\ extractor = "parse_spdx_json"
    /\ Len(result) = 1

\* A path whose extension is unknown raised, naming it in lower case.
C5_WitnessUnsupported ==
    /\ call = "parse_sbom" /\ pc = "raised"
    /\ input_file = <<"a", ".", "Y", "A", "M", "L">>
    /\ error.msg = UnsupportedFormat \o <<".", "y", "a", "m", "l">>

\* C9: a .json file that is undecodable, or decodes to something other
\* than an object, makes the parse fail: it raises and returns no record
\* sequence, not even an empty one.
C9_JsonNonObjectFails ==
    (call = "parse_sbom" /\ extractor = "parse_spdx_json"
        /\ content.kind # "object" /\ pc # "open") =>
        /\ pc = "raised"
        /\ error.type \in {"JSONDecodeError", "AttributeError"}
        /\ result = <<>> /\ components = <<>> /\ output_file = None

\* A .json file holding an array has raised.
C9_Witness ==
    /\ call = "parse_sbom" /\ extractor = "parse_spdx_json" /\ pc = "raised"
    /\ content.kind = "array"
    /\ error.type = "AttributeError"

\* The record a fully populated package stands for: each field its source
\* value, the supplier normalized, the locator aggregated.
ExpectedRecord(package) ==
    [SPDX_ID                 |-> package.SPDXID,
     Name                    |-> package.name,
     Version                 |-> package.versionInfo,
     Supplier                |-> NormalizedSupplier(package.supplier),
     License_Declared        |-> package.licenseDeclared,
     Copyright_Text          |-> package.copyrightText,
     Download_Location       |-> package.downloadLocation,
     Homepage                |-> package.homepage,
     Description             |-> package.description,
     Package_Manager_Locator |-> AggregatedLocator(package.externalRefs)]

\* Every value of the package is one line of text that neither is empty
\* nor starts or ends with whitespace, and no sub-field of a reference is
\* empty or holds whitespace.
PlainValues(package) ==
    /\ \A key \in ScalarKeySet :
          /\ package[key] # <<>>
          /\ Trimmed(package[key]) = package[key]
          /\ \A k \in 1..Len(package[key]) : package[key][k] \notin {"\n", "\r"}
    /\ \A k \in 1..Len(package.externalRefs) :
          \A key \in DOMAIN package.externalRefs[k] :
              /\ package.externalRefs[k][key] # <<>>
              /\ \A j \in 1..Len(package.externalRefs[k][key]) :
                    ~IsSpace(package.externalRefs[k][key][j])

\* C2 as stated: whichever of the three formats the file of a fully
\* populated package is written in, the parse returns exactly one record,
\* the same for the three: each field the source value, the supplier
\* normalized, the locator aggregated.
C2_AsStated ==
    (ParseDone /\ src # NoneDict) =>
        /\ pc # "raised"
        /\ result = <<ExpectedRecord(src)>>

\* C2, amended: the same, for a package whose values are plain: each a
\* non-empty line without leading or trailing whitespace, the sub-fields
\* of its references without any whitespace.
C2_SameRecordInThreeFormats ==
    (ParseDone /\ src # NoneDict /\ PlainValues(src)) =>
        /\ pc # "raised"
        /\ result = <<ExpectedRecord(src)>>

\* The tag-value file of a plain package with three references, two of
\* them package-manager references, has been parsed into its record.
C2_Witness ==
    /\ ParseReturned /\ extractor = "parse_spdx_tv"
    /\ src # NoneDict /\ PlainValues(src)
    /\ src.externalRefs = RefsMixed
    /\ src.supplier = pfx_Person \o <<"A", " ", "b">>
    /\ result = <<ExpectedRecord(src)>>
    /\ result[1].Supplier = <<"A", " ", "b">>
    /\ result[1].Package_Manager_Locator = <<"p", ";", " ", "q">>

\* The children of an element with a local name, in the root's namespace.
ChildrenNamed(el, ns, name) ==
    SelectSeq(el.children, LAMBDA c : c.tag = <<ns, name>>)

\* The package elements of a document: the root's children named
\* 'packages', or those named 'package' if there is none.
PackageElements(root) ==
    IF ChildrenNamed(root, root.tag[1], "packages") # <<>>
    THEN ChildrenNamed(root, root.tag[1], "packages")
    ELSE ChildrenNamed(root, root.tag[1], "package")

RefElements(el, ns) ==
    ChildrenNamed(el, ns, "externalRefs") \o ChildrenNamed(el, ns, "externalRef")

\* The field is absent from the package element, or present without text.
AbsentOrEmpty(el, ns, name) ==
    \/ ChildrenNamed(el, ns, name) = <<>>
    \/ ChildrenNamed(el, ns, name)[1].text = None

\* Every sub-field a reference element holds has text.
RefElementsHaveText(el, ns) ==
    \A k \in 1..Len(RefElements(el, ns)) :
        \A j \in 1..Len(RefElements(el, ns)[k].children) :
            RefElements(el, ns)[k].children[j].text # None

\* C8: a JSON package object or an XML package element lacking any of the
\* optional fields (in XML also: holding them without text) does not make
\* the parse fail; it yields one record, with 'N/A' in each such field and
\* as the locator when there are no reference entries.
C8_AbsentFieldsHealed ==
    /\ (ParseDone /\ extractor = "parse_spdx_json" /\ content.kind = "object"
            /\ "packages" \in DOMAIN content.value
            /\ \A k \in 1..Len(content.value.packages) :
                  TextRefs(get(content.value.packages[k], "externalRefs", <<>>))) =>
          /\ pc # "raised"
          /\ Len(result) = Len(content.value.packages)
          /\ \A k \in 1..Len(result) :
                LET package == content.value.packages[k] IN
                /\ \A key \in ScalarKeySet \ DOMAIN package :
                      result[k][FieldOfKey[key]] = NA
                /\ get(package, "externalRefs", <<>>) = <<>> =>
                      result[k].Package_Manager_Locator = NA
    /\ (ParseDone /\ extractor = "parse_spdx_xml" /\ content.wellformed
            /\ \A k \in 1..Len(PackageElements(content.root)) :
                  RefElementsHaveText(PackageElements(content.root)[k],
                                      content.root.tag[1])) =>
          /\ pc # "raised"
          /\ Len(result) = Len(PackageElements(content.root))
          /\ \A k \in 1..Len(result) :
                LET el == PackageElements(content.root)[k]
                    ns == content.root.tag[1]
                IN  /\ \A key \in ScalarKeySet :
                          AbsentOrEmpty(el, ns, key) =>
                              result[k][FieldOfKey[key]] = NA
                    /\ RefElements(el, ns) = <<>> =>
                          result[k].Package_Manager_Locator = NA

\* A package element that holds its version without text and lacks nothing
\* else has been parsed into a record whose version alone is 'N/A'.
C8_Witness ==
    /\ ParseReturned /\ extractor = "parse_spdx_xml"
    /\ Len(PackageElements(content.root)) = 1
    /\ ChildrenNamed(PackageElements(content.root)[1], "", "versionInfo") # <<>>
    /\ AbsentOrEmpty(PackageElements(content.root)[1], "", "versionInfo")
    /\ Len(result) = 1
    /\ {f \in FieldSet : result[1][f] = NA} = {"Version"}

\* A package object without any key has been parsed into a record that is
\* 'N/A' in all ten fields.
C8_WitnessAllAbsent ==
    /\ ParseReturned /\ extractor = "parse_spdx_json"
    /\ content.kind = "object" /\ "packages" \in DOMAIN content.value
    /\ Len(content.value.packages) = 1
    /\ DOMAIN content.value.packages[1] = {}
    /\ result = <<[f \in FieldSet |-> NA]>>

----------------------------------------------------------------------------
(* Reading a csv file back: csv.reader, excel dialect, on a file opened    *)
(* with newline=''.  The reader takes the text line by line (a line ends   *)
(* after '\n', or after a '\r' that no '\n' follows) and, after the        *)
(* characters of each line, the end-of-line mark "EOL".                    *)

ReaderState(state, field, row, rows) ==
    [state |-> state, field |-> field, row |-> row, rows |-> rows]

\* The field under construction closes the current row's next cell.
SaveField(st, next) ==
    ReaderState(next, <<>>, Append(st.row, st.field), st.rows)

AddChar(st, c, next) == ReaderState(next, Append(st.field, c), st.row, st.rows)

\* The end of a line outside quotes ends the record.
EndRecord(st) == ReaderState("START_RECORD", <<>>, <<>>, Append(st.rows, st.row))

ReaderStep(st, c) ==
    LET s0 == IF st.state = "START_RECORD" /\ c \notin {"EOL", "\n", "\r"}
              THEN [st EXCEPT !.state = "START_FIELD"] ELSE st
    IN
    CASE s0.state = "START_RECORD" ->
            IF c = "EOL" THEN EndRecord(s0) ELSE [s0 EXCEPT !.state = "EAT_CRNL"]
      [] s0.state = "START_FIELD" ->
            IF c = "EOL" THEN EndRecord(SaveField(s0, "START_RECORD"))
            ELSE IF c \in {"\n", "\r"} THEN SaveField(s0, "EAT_CRNL")
            ELSE IF c = "\"" THEN [s0 EXCEPT !.state = "IN_QUOTED_FIELD"]
            ELSE IF c = "," THEN SaveField(s0, "START_FIELD")
            ELSE AddChar(s0, c, "IN_FIELD")
      [] s0.state = "IN_FIELD" ->
            IF c = "EOL" THEN EndRecord(SaveField(s0, "START_RECORD"))
            ELSE IF c \in {"\n", "\r"} THEN SaveField(s0, "EAT_CRNL")
            ELSE IF c = "," THEN SaveField(s0, "START_FIELD")
            ELSE AddChar(s0, c, "IN_FIELD")
      [] s0.state = "IN_QUOTED_FIELD" ->
            IF c = "EOL" THEN s0
            ELSE IF c = "\"" THEN [s0 EXCEPT !.state = "QUOTE_IN_QUOTED_FIELD"]
            ELSE AddChar(s0, c, "IN_QUOTED_FIELD")
      [] s0.state = "QUOTE_IN_QUOTED_FIELD" ->
            IF c = "EOL" THEN EndRecord(SaveField(s0, "START_RECORD"))
            ELSE IF c \in {"\n", "\r"} THEN SaveField(s0, "EAT_CRNL")
            ELSE IF c = "\"" THEN AddChar(s0, c, "IN_QUOTED_FIELD")
            ELSE IF c = "," THEN SaveField(s0, "START_FIELD")
            ELSE AddChar(s0, c, "IN_FIELD")
      [] s0.state = "EAT_CRNL" ->
            IF c = "EOL" THEN EndRecord(s0)
            ELSE IF c \in {"\n", "\r"} THEN s0
            ELSE [s0 EXCEPT !.state = "ERROR"]
      [] OTHER -> s0

\* The reader after the characters lo..hi of the text, halving the range.
RECURSIVE ReaderScan(_, _, _, _)
ReaderScan(text, lo, hi, st) ==
    IF lo > hi \/ st.state = "ERROR" THEN st
    ELSE IF lo = hi
    THEN LET after   == ReaderStep(st, text[lo])
             lineEnd == \/ text[lo] = "\n"
                        \/ text[lo] = "\r" /\ ~(lo < Len(text) /\ text[lo + 1] = "\n")
         IN  IF lineEnd THEN ReaderStep(after, "EOL") ELSE after
    ELSE LET mid  == (lo + hi) \div 2
             left == ReaderScan(text, lo, mid, st)
         IN  IF left.state = "ERROR" THEN left
             ELSE ReaderScan(text, mid + 1, hi, left)

\* The rows a reader gets from the text of a file that ends with a line end.
CsvRowsRead(text) ==
    ReaderScan(text, 1, Len(text), ReaderState("START_RECORD", <<>>, <<>>, <<>>)).rows

\* C10: the file save_to_csv writes holds the header row with the ten
\* field names in canonical order, then a row per record in input order,
\* and reading it back gives, row by row, the ten values of each record.
C10_CsvRoundTrip ==
    (call = "parse_sbom" /\ pc = "saved") =>
        LET rows == CsvRowsRead(output_file) IN
        /\ Len(rows) = Len(result) + 1
        /\ rows[1] = [k \in 1..Len(fieldnames) |-> FieldText[fieldnames[k]]]
        /\ \A k \in 1..Len(result) :
              rows[k + 1] = [j \in 1..Len(fieldnames) |-> result[k][fieldnames[j]]]

\* The same for the records without a null.
CsvRoundTripOfText ==
    (call = "parse_sbom" /\ pc = "saved"
        /\ \A k \in 1..Len(result) : \A f \in FieldSet : result[k][f] # None) =>
        LET rows == CsvRowsRead(output_file) IN
        /\ Len(rows) = Len(result) + 1
        /\ rows[1] = [k \in 1..Len(fieldnames) |-> FieldText[fieldnames[k]]]
        /\ \A k \in 1..Len(result) :
              rows[k + 1] = [j \in 1..Len(fieldnames) |-> result[k][fieldnames[j]]]

----------------------------------------------------------------------------
(* References and order in the XML and JSON extractors: SpecParse.         *)

\* The text of a sub-field of a reference element, trimmed: empty if the
\* child is missing or has no text.
SubFieldText(ref, ns, name) ==
    IF AbsentOrEmpty(ref, ns, name) THEN <<>>
    ELSE Trimmed(ChildrenNamed(ref, ns, name)[1].text)

\* The references of a package element, one per reference element.
RefsOfElement(el, ns) ==
    [k \in 1..Len(RefElements(el, ns)) |->
        [referenceCategory |-> SubFieldText(RefElements(el, ns)[k], ns, "referenceCategory"),
         referenceLocator  |-> SubFieldText(RefElements(el, ns)[k], ns, "referenceLocator")]]

\* The parse of a well-formed XML document is over.
XmlParseDone ==
    /\ call = "parse_sbom" /\ extractor = "parse_spdx_xml"
    /\ pc \in {"returned", "raised"}
    /\ content.wellformed

\* C15: the parse of a well-formed XML document does not fail whatever the
\* shape of its reference elements, and a category or locator child that
\* is missing, or present without text, counts as the empty string: the
\* locator of each record is the aggregate of its references read so.
C15_RefSubFieldsHealed ==
    XmlParseDone =>
        /\ pc = "returned"
        /\ Len(result) = Len(PackageElements(content.root))
        /\ \A k \in 1..Len(result) :
              result[k].Package_Manager_Locator =
                  AggregatedLocator(RefsOfElement(PackageElements(content.root)[k],
                                                  content.root.tag[1]))

\* The same for the documents whose reference sub-fields, where present,
\* have text: only missing children are healed.
XmlMissingRefChildIsEmpty ==
    (XmlParseDone /\ \A k \in 1..Len(PackageElements(content.root)) :
                        RefElementsHaveText(PackageElements(content.root)[k],
                                            content.root.tag[1])) =>
        /\ pc = "returned"
        /\ Len(result) = Len(PackageElements(content.root))
        /\ \A k \in 1..Len(result) :
              result[k].Package_Manager_Locator =
                  AggregatedLocator(RefsOfElement(PackageElements(content.root)[k],
                                                  content.root.tag[1]))

\* A package-manager reference without a locator child was read with the
\* empty locator.
XmlMissingLocatorRead ==
    /\ XmlParseDone /\ pc = "returned" /\ Len(result) = 1
    /\ Len(RefElements(PackageElements(content.root)[1], content.root.tag[1])) = 1
    /\ ChildrenNamed(RefElements(PackageElements(content.root)[1], content.root.tag[1])[1],
                     content.root.tag[1], "referenceLocator") = <<>>
    /\ result[1].Package_Manager_Locator = <<>>

\* The children of the root named with the plural or the singular name of
\* a package element, in document order.
ElementsOfEitherName(root) ==
    SelectSeq(root.children, LAMBDA c :
        c.tag \in {<<root.tag[1], "packages">>, <<root.tag[1], "package">>})

\* The name a package element gives its record.
NameOfElement(el, ns) ==
    IF AbsentOrEmpty(el, ns, "name") THEN NA
    ELSE Trimmed(ChildrenNamed(el, ns, "name")[1].text)

\* The records are those of the given package elements, one each, in order.
RecordsFollow(elements) ==
    /\ Len(result) = Len(elements)
    /\ \A k \in 1..Len(result) :
          result[k].Name = NameOfElement(elements[k], content.root.tag[1])

JsonRecordsFollow ==
    (ParseReturned /\ extractor = "parse_spdx_json") =>
        /\ Len(result) = Len(get(content.value, "packages", <<>>))
        /\ \A k \in 1..Len(result) :
              result[k].Name = get(content.value.packages[k], "name", NA)

\* C16 as stated: one record per package of the source in source order,
\* the package elements of an XML document being the root's children of
\* either name.
C16_AsStated ==
    /\ JsonRecordsFollow
    /\ (ParseReturned /\ extractor = "parse_spdx_xml") =>
          RecordsFollow(ElementsOfEitherName(content.root))

\* C16: one record per package of the source in source order: for JSON
\* the packages array; for XML the root's children of the plural name in
\* document order or, only when there is none, those of the singular name.
C16_SourceOrder ==
    /\ JsonRecordsFollow
    /\ (ParseReturned /\ extractor = "parse_spdx_xml") =>
          RecordsFollow(PackageElements(content.root))

\* Two package elements of the plural name, b before a, among other
\* children of the root: two records, b before a.
C16_Witness ==
    /\ ParseReturned /\ extractor = "parse_spdx_xml"
    /\ Len(content.root.children) = 4
    /\ Len(result) = 2
    /\ result[1].Name = <<"b">> /\ result[2].Name = <<"a">>

\* Two packages in a JSON array, in its order.
JsonOrderKept ==
    /\ ParseReturned /\ extractor = "parse_spdx_json"
    /\ Len(result) = 2
    /\ result[1].Name = <<"c">> /\ result[2].Name = <<"a">>

----------------------------------------------------------------------------
(* Properties of the tag-value extractor: SpecTV.                          *)

\* The k-th line of the file opens a package.
IsNameLine(k) == startswith(Trimmed(content[k]), tag_PackageName)

\* The indices of the lines that open a package, in line order.
NameLines == SelectSeq([k \in 1..Len(content) |-> k], IsNameLine)

NameLinesUpTo(n) == SelectSeq([k \in 1..n |-> k], IsNameLine)

\* The indices of the lines read while the j-th package is open: those
\* after its name line and before the next name line.
SegmentOf(j) ==
    LET first == NameLines[j] + 1
        last  == IF j < Len(NameLines) THEN NameLines[j + 1] - 1 ELSE Len(content)
    IN  [k \in 1..(last - first + 1) |-> first + k - 1]

\* The text after the first colon of the k-th line, trimmed.
ValueOfLine(k) == Trimmed(AfterFirst(Trimmed(content[k]), ":"))

\* The value the lines of a segment give a field: that of the last line
\* that starts with the field's tag, 'N/A' if there is none.
FieldOfSegment(seg, tag) ==
    LET hits == SelectSeq(seg, LAMBDA k : startswith(Trimmed(content[k]), tag))
    IN  IF hits = <<>> THEN NA ELSE ValueOfLine(hits[Len(hits)])

\* The references the lines of a segment give: one per ExternalRef line of
\* at least three tokens, its first token the category, its third the
\* locator.
RefsOfSegment(seg) ==
    LET hits == SelectSeq(seg, LAMBDA k :
                    /\ startswith(Trimmed(content[k]), tag_ExternalRef)
                    /\ Len(str_split(ValueOfLine(k))) >= 3)
    IN  [h \in 1..Len(hits) |->
            [referenceCategory |-> str_split(ValueOfLine(hits[h]))[1],
             referenceLocator  |-> str_split(ValueOfLine(hits[h]))[3]]]

\* C3: each PackageName line starts a record of its own: right after it
\* the open record holds 'N/A' in every field but the name and the
\* accumulator is empty, and in the output every field of the k-th record
\* but the name and the locator comes from the lines between the k-th
\* PackageName line and the next one, from no other line.
C3_NoLeakBetweenPackages ==
    /\ (pc = "loop" /\ pos >= 1 /\ IsNameLine(pos)) =>
          /\ current_package.Name = ValueOfLine(pos)
          /\ \A f \in FieldSet \ {"Name"} : current_package[f] = NA
          /\ current_ext_refs = <<>>
    /\ pc = "returned" =>
          /\ Len(result) = Len(NameLines)
          /\ \A j \in 1..Len(result) :
                \A k \in 1..Len(tag_map) :
                    result[j][tag_map[k][2]] =
                        IF tag_map[k][2] = "Supplier"
                        THEN NormalizedSupplier(FieldOfSegment(SegmentOf(j), tag_map[k][1]))
                        ELSE FieldOfSegment(SegmentOf(j), tag_map[k][1])

\* Two packages: the first with an identifier and a reference, the second
\* right after with neither, so 'N/A' twice.
C3_Witness ==
    /\ pc = "returned"
    /\ content = <<line_name_a, line_spdxid, line_ref_p, line_name_b>>
    /\ Len(result) = 2
    /\ result[1].SPDX_ID = <<"i">> /\ result[1].Package_Manager_Locator = <<"p">>
    /\ result[2].Name = <<"b">>
    /\ result[2].SPDX_ID = NA /\ result[2].Package_Manager_Locator = NA

\* C4: every package opened is finalized exactly once, at the next
\* PackageName line or at the end of input: at each point the output holds
\* one record per PackageName line read but the last, in line order, the
\* last package being open; at the end it holds one per PackageName line;
\* the locator of each is the aggregate of the ExternalRef lines of its
\* own segment.
C4_FinalizedExactlyOnce ==
    /\ pc = "loop" =>
          /\ current_package = NoneDict <=> NameLinesUpTo(pos) = <<>>
          /\ Len(components) =
                IF NameLinesUpTo(pos) = <<>> THEN 0 ELSE Len(NameLinesUpTo(pos)) - 1
    /\ pc = "returned" => result = components /\ Len(result) = Len(NameLines)
    /\ pc \in {"loop", "returned"} =>
          \A j \in 1..Len(components) :
              /\ components[j].Name = ValueOfLine(NameLines[j])
              /\ components[j].Package_Manager_Locator =
                    AggregatedLocator(RefsOfSegment(SegmentOf(j)))

\* A package with two references closed by the next PackageName line, and
\* that one closed by the end of input.
C4_Witness ==
    /\ pc = "returned"
    /\ content = <<line_name_b, line_ref_q, line_ref_p, line_name_a>>
    /\ Len(result) = 2
    /\ result[1].Name = <<"b">>
    /\ result[1].Package_Manager_Locator = <<"q", ";", " ", "p">>
    /\ result[2].Name = <<"a">>
    /\ result[2].Package_Manager_Locator = NA

\* The whitespace-separated tokens of a text: its maximal runs of
\* characters that are no whitespace, in order.
Tokens(s) ==
    LET idx    == [i \in 1..Len(s) |-> i]
        starts == SelectSeq(idx, LAMBDA i :
                      ~IsSpace(s[i]) /\ (i = 1 \/ IsSpace(s[i - 1])))
        ends   == SelectSeq(idx, LAMBDA i :
                      ~IsSpace(s[i]) /\ (i = Len(s) \/ IsSpace(s[i + 1])))
    IN  [k \in 1..Len(starts) |-> SubSeq(s, starts[k], ends[k])]

\* The text of a line after its first colon.
AfterFirstColon(s) ==
    LET colons == {i \in 1..Len(s) : s[i] = ":"}
        first  == CHOOSE i \in colons : \A j \in colons : i <= j
    IN  IF colons = {} THEN <<>> ELSE SubSeq(s, first + 1, Len(s))

\* The step reads the next line, which is `line` once trimmed.
ReadsLine(line) ==
    /\ extractor = "parse_spdx_tv" /\ pc = "loop"
    /\ pos' = pos + 1
    /\ line = Trimmed(content[pos'])

\* C12: while a package is open, reading an ExternalRef line of at least
\* three whitespace-separated tokens after the first colon appends one
\* reference to the accumulator, its category the first token and its
\* locator the third; reading one of fewer tokens leaves the accumulator
\* unchanged; either way the open record is unchanged.
C12_ExternalRefLine ==
    [][\A line \in {Trimmed(content[k]) : k \in 1..Len(content)} :
          (/\ ReadsLine(line)
           /\ current_package # NoneDict
           /\ startswith(line, tag_ExternalRef)) =>
              LET parts == Tokens(AfterFirstColon(line)) IN
              /\ current_package' = current_package
              /\ IF Len(parts) >= 3
                 THEN /\ Len(current_ext_refs') = Len(current_ext_refs) + 1
                      /\ SubSeq(current_ext_refs', 1, Len(current_ext_refs))
                            = current_ext_refs
                      /\ current_ext_refs'[Len(current_ext_refs')].referenceCategory
                            = parts[1]
                      /\ current_ext_refs'[Len(current_ext_refs')].referenceLocator
                            = parts[3]
                 ELSE current_ext_refs' = current_ext_refs]_vars

\* A reference of four tokens was appended with its third token, then a
\* reference line of two tokens was read and changed nothing.
C12_Witness ==
    /\ pc = "loop" /\ pos = 3
    /\ content[1] = line_name_a /\ content[2] = line_ref_p
    /\ content[3] = line_ref_short
    /\ Len(current_ext_refs) = 1
    /\ current_ext_refs[1].referenceCategory = PACKAGE_MANAGER
    /\ current_ext_refs[1].referenceLocator = <<"p">>
    /\ current_package.Name = <<"a">>

\* The tags a line can start with: those of the tag-to-field table,
\* PackageName: and ExternalRef:.
AllTags ==
    {tag_map[k][1] : k \in 1..Len(tag_map)} \cup {tag_PackageName, tag_ExternalRef}

\* The fields in which two records differ.
FieldsChanged(before, after) == {f \in FieldSet : before[f] # after[f]}

\* C13: no tag is a prefix of another, so a line starts with at most one;
\* a line read while a package is open, other than a PackageName line,
\* changes at most one field of the open record: the field of the tag it
\* starts with, set to the text after the first colon, trimmed, and for
\* PackageSupplier: normalized; a line that starts with no tag of the
\* table changes none.
C13_AtMostOneField ==
    [][/\ \A t1, t2 \in AllTags : t1 # t2 => ~startswith(t1, t2)
       /\ \A line \in {Trimmed(content[k]) : k \in 1..Len(content)} :
          (/\ ReadsLine(line)
           /\ current_package # NoneDict
           /\ ~startswith(line, tag_PackageName)) =>
              LET hits == {k \in 1..Len(tag_map) : startswith(line, tag_map[k][1])}
                  value == Trimmed(AfterFirstColon(line))
              IN  /\ Cardinality(hits) <= 1
                  /\ Cardinality(FieldsChanged(current_package, current_package')) <= 1
                  /\ hits = {} => current_package' = current_package
                  /\ \A k \in hits :
                        current_package' =
                            [current_package EXCEPT ![tag_map[k][2]] =
                                IF tag_map[k][1] = tag_PackageSupplier
                                THEN NormalizedSupplier(value)
                                ELSE value]]_vars

\* An open package took its identifier from one line and its supplier,
\* normalized, from the next; its other fields are as they were.
C13_Witness ==
    /\ pc = "loop" /\ pos = 3
    /\ content[1] = line_name_b /\ content[2] = line_spdxid
    /\ content[3] = line_supplier
    /\ current_package.SPDX_ID = <<"i">>
    /\ current_package.Supplier = <<"A">>
    /\ \A f \in FieldSet \ {"Name", "SPDX_ID", "Supplier"} : current_package[f] = NA

\* C14: a line read before the first PackageName line that is no
\* PackageName line itself, and a blank or '#' line anywhere, leaves the
\* output sequence, the open record and the accumulator as they were, and
\* raises nothing.
C14_IgnoredLines ==
    [][\A line \in {Trimmed(content[k]) : k \in 1..Len(content)} :
          (/\ ReadsLine(line)
           /\ \/ line = <<>>
              \/ line[1] = "#"
              \/ NameLinesUpTo(pos) = <<>> /\ ~startswith(line, tag_PackageName)) =>
              /\ components' = components
              /\ current_package' = current_package
              /\ current_ext_refs' = current_ext_refs
              /\ pc' = "loop" /\ error' = NoError]_vars

\* An identifier and a reference before the first package, and a comment
\* inside it: the one record returned has neither.
C14_Witness ==
    /\ pc = "returned"
    /\ content = <<line_spdxid, line_ref_p, line_name_a, line_comment>>
    /\ Len(result) = 1
    /\ result[1].Name = <<"a">>
    /\ result[1].SPDX_ID = NA
    /\ result[1].Package_Manager_Locator = NA

----------------------------------------------------------------------------
(* Properties of concurrent calls: SpecCalls.                              *)

----------------------------------------------------------------------------
(* Properties of the application window: SpecApp, SpecAppFair.             *)

\* The parses under way: the worker threads running and the callbacks
\* they queued that the main loop has not run yet.
Pending == Len(workers) + Len(after_queue)

\* The step is the main loop running the oldest callback, a callback.
RunsCallback(callback) ==
    /\ after_queue # <<>>
    /\ Head(after_queue).callback = callback
    /\ after_queue' = Tail(after_queue)

\* C17: at most one parse worker thread is running at any time: a worker
\* is started only by a step that finds the Parse button enabled and
\* leaves it disabled, the button is disabled while a worker runs, and it
\* goes from disabled to enabled only in a step that runs a queued
\* callback, _on_parse_success or _on_parse_error, when no worker runs.
C17_OneWorkerInFlight ==
    [][/\ Len(workers') <= 1
       /\ Len(workers') = 1 => ~_parse_btn'
       /\ Len(workers') > Len(workers) => _parse_btn /\ ~_parse_btn'
       /\ (~_parse_btn /\ _parse_btn') =>
             /\ RunsCallback("_on_parse_success") \/ RunsCallback("_on_parse_error")
             /\ workers = <<>> /\ workers' = <<>>]_vars

\* A first parse has loaded records, and a second one is running with the
\* button disabled.
C17_Witness ==
    /\ Len(workers) = 1
    /\ ~_parse_btn
    /\ _components # <<>>
    /\ _status = Status("Parsing SBOM", 0)

\* C18: while the Parse button is disabled exactly one parse is under way,
\* as a running worker or as its one queued callback, and none is while it
\* is enabled; the progress bar runs exactly while the button is disabled;
\* and a disabled button leads to an enabled one with the progress bar
\* stopped, whether the parse returned or raised.
C18_ParseAlwaysAnswered ==
    /\ [](Pending = IF _parse_btn THEN 0 ELSE 1)
    /\ [](_progress <=> ~_parse_btn)
    /\ (~_parse_btn) ~> (_parse_btn /\ ~_progress)

\* A parse that raised was answered by _on_parse_error: the button is
\* enabled again and the progress bar stopped.
C18_Witness ==
    /\ _status = Status("Error", 0)
    /\ _parse_btn /\ ~_progress
    /\ Pending = 0

\* The list, the table and the four statistics are empty or zero.
AllCleared ==
    /\ _components = <<>> /\ _tree = <<>>
    /\ _stat_total = 0 /\ _stat_purl = 0 /\ _stat_no_purl = 0
    /\ _stat_licenses = 0

\* C19: after Clear All the list, the table and the statistics stay empty
\* until Parse is pressed next.  While the status bar still reads
\* 'Cleared', Clear All was the last handler to write it and no parse was
\* started since, so no step from such a state may fill them.
C19_StaysCleared ==
    [][(_status = Status("Cleared", 0) /\ AllCleared) => AllCleared']_vars

\* The same when no parse is under way as the step is taken.
StaysClearedWhenIdle ==
    [][(_status = Status("Cleared", 0) /\ AllCleared /\ Pending = 0)
            => AllCleared']_vars

\* Clear All was pressed while a worker runs.
ClearedInFlight ==
    /\ _status = Status("Cleared", 0) /\ AllCleared
    /\ Len(workers) = 1

\* C20: the statistics cards agree with the loaded list in every state:
\* Total is its length, With PURL the number of its records whose locator
\* is not 'N/A', No PURL the difference; and the step that answers a failed
\* parse changes neither the list nor the cards.
C20_StatsAgree ==
    /\ [](/\ _stat_total = Len(_components)
          /\ _stat_purl = Cardinality({k \in 1..Len(_components) :
                              _components[k].Package_Manager_Locator # NA})
          /\ _stat_no_purl = _stat_total - _stat_purl)
    /\ [][RunsCallback("_on_parse_error") =>
             UNCHANGED <<_components, _stat_total, _stat_purl, _stat_no_purl,
                         _stat_licenses>>]_vars

\* Two records are loaded, one with a locator, and a later parse failed.
C20_Witness ==
    /\ _status = Status("Error", 0)
    /\ Len(_components) = 2
    /\ _stat_total = 2 /\ _stat_purl = 1 /\ _stat_no_purl = 1

=============================================================================
